---- MODULE Spec2Model ----
(***************************************************************************)
(* Paper-management API (assignment 2): validation middleware, data-access *)
(* layer over the papers/authors store, and the /api/papers and            *)
(* /api/authors routes.  One action per HTTP request (whole handler chain).*)
(***************************************************************************)
EXTENDS Integers, Sequences, FiniteSets, TLC

(***************************************************************************)
(* Bounds of the model.                                                    *)
(***************************************************************************)
MaxPaperId == 2
MaxAuthorId == 2
MaxClock == 2
MaxFetches == 3

(***************************************************************************)
(* JavaScript / JSON values.  Text is a sequence of one-character strings. *)
(***************************************************************************)
Undef == [k |-> "undef"]
Null == [k |-> "null"]
Frac == [k |-> "frac"]
NaN == [k |-> "nan"]
Str(s) == [k |-> "str", v |-> s]
Num(n) == [k |-> "num", v |-> n]
Arr(items) == [k |-> "arr", v |-> items]

Min(S) == CHOOSE x \in S : \A y \in S : x <= y

RECURSIVE SortedSeq(_)
SortedSeq(S) == IF S = {} THEN << >> ELSE <<Min(S)>> \o SortedSeq(S \ {Min(S)})

\* String.prototype.trim: strips leading and trailing white space.
RECURSIVE TrimLeft(_)
TrimLeft(s) == IF s # << >> /\ Head(s) = " " THEN TrimLeft(Tail(s)) ELSE s

RECURSIVE TrimRight(_)
TrimRight(s) ==
    IF s # << >> /\ s[Len(s)] = " " THEN TrimRight(SubSeq(s, 1, Len(s) - 1)) ELSE s

Trim(s) == TrimRight(TrimLeft(s))

\* Lower-casing of one character (case-insensitive comparison).
Lower(c) ==
    CASE c = "A" -> "a"
      [] c = "B" -> "b"
      [] c = "I" -> "i"
      [] c = "C" -> "c"
      [] c = "U" -> "u"
      [] OTHER -> c

\* x === undefined || x === null || x.trim() === ""  (throws when x has no trim)
MissingOrBlankThrows(x) == x.k \notin {"undef", "null", "str"}
MissingOrBlank(x) ==
    \/ x.k = "undef"
    \/ x.k = "null"
    \/ x.k = "str" /\ Trim(x.v) = << >>

\* Number.isInteger(year) && year > 1900
YearOkInclusive(y) == y.k = "num" /\ y.v >= 1900
YearOk(y) == y.k = "num" /\ y.v > 1900

yearErrors(y) ==
    IF y.k \in {"undef", "null"}
    THEN <<"Published year is required">>
    ELSE IF ~YearOk(y) THEN <<"Valid year after 1900 is required">> ELSE << >>

\* The loop over paper.authors: index of the first author at which the loop
\* stops (0 when it runs to the end), either by pushing the message and
\* breaking or by throwing on an entry that has no readable name.
AuthorEntryThrows(a) == a.k \in {"undef", "null"} \/ MissingOrBlankThrows(a.name)
AuthorEntryBad(a) == ~AuthorEntryThrows(a) /\ MissingOrBlank(a.name)

FirstStop(items) ==
    LET S == {i \in 1..Len(items) : AuthorEntryThrows(items[i]) \/ AuthorEntryBad(items[i])}
    IN IF S = {} THEN 0 ELSE Min(S)

AuthorsLength(a) == IF a.k \in {"arr", "str"} THEN Len(a.v) ELSE -1

authorsThrows(a) ==
    /\ a.k = "arr"
    /\ FirstStop(a.v) # 0
    /\ AuthorEntryThrows(a.v[FirstStop(a.v)])

RECURSIVE NameErrorsNoBreak(_)
NameErrorsNoBreak(items) ==
    IF items = << >> THEN << >>
    ELSE (IF AuthorEntryBad(Head(items)) THEN <<"Author name is required">> ELSE << >>)
         \o NameErrorsNoBreak(Tail(items))

authorsErrorsNoBreak(a) ==
    IF a.k \in {"undef", "null"} \/ AuthorsLength(a) = 0
    THEN <<"At least one author is required">>
    ELSE IF a.k = "arr" THEN NameErrorsNoBreak(a.v)
    ELSE IF a.k = "str" THEN <<"Author name is required">>
    ELSE << >>

authorsErrors(a) ==
    IF a.k \in {"undef", "null"} \/ AuthorsLength(a) = 0
    THEN <<"At least one author is required">>
    ELSE IF a.k = "arr"
         THEN (IF FirstStop(a.v) # 0 THEN <<"Author name is required">> ELSE << >>)
         ELSE IF a.k = "str" THEN <<"Author name is required">>
         ELSE << >>

titleErrors(paper) ==
    IF MissingOrBlank(paper.title) THEN <<"Title is required">> ELSE << >>

venueErrors(paper) ==
    IF MissingOrBlank(paper.publishedIn) THEN <<"Published venue is required">> ELSE << >>

validatePaperInputThrows(paper) ==
    \/ MissingOrBlankThrows(paper.title)
    \/ MissingOrBlankThrows(paper.publishedIn)
    \/ authorsThrows(paper.authors)

\* Draft ordering: the authors check placed before the venue and year checks.
validatePaperInputDraft(paper) ==
    titleErrors(paper) \o authorsErrors(paper.authors)
        \o venueErrors(paper) \o yearErrors(paper.year)

validatePaperInput(paper) ==
    titleErrors(paper) \o venueErrors(paper)
        \o yearErrors(paper.year) \o authorsErrors(paper.authors)

validateAuthorInput(author) ==
    IF MissingOrBlank(author.name) THEN <<"Name is required">> ELSE << >>

validateAuthorInputThrows(author) == MissingOrBlankThrows(author.name)

(***************************************************************************)
(* Number(string): decimal integers with optional sign and fraction; the   *)
(* empty string converts to 0, anything else to NaN.                       *)
(***************************************************************************)
Digits == {"0", "1", "2", "3", "4", "5", "6", "7", "8", "9"}

DigitVal(c) ==
    CASE c = "0" -> 0 [] c = "1" -> 1 [] c = "2" -> 2 [] c = "3" -> 3
      [] c = "4" -> 4 [] c = "5" -> 5 [] c = "6" -> 6 [] c = "7" -> 7
      [] c = "8" -> 8 [] c = "9" -> 9

AllDigits(s) == \A i \in 1..Len(s) : s[i] \in Digits

RECURSIVE DecValue(_)
DecValue(s) ==
    IF s = << >> THEN 0
    ELSE 10 * DecValue(SubSeq(s, 1, Len(s) - 1)) + DigitVal(s[Len(s)])

UnsignedToNumber(s) ==
    LET dots == {i \in 1..Len(s) : s[i] = "."}
    IN IF s = << >> THEN NaN
       ELSE IF AllDigits(s) THEN Num(DecValue(s))
       ELSE IF Cardinality(dots) = 1
            THEN LET d == CHOOSE i \in dots : TRUE
                     ip == SubSeq(s, 1, d - 1)
                     fp == SubSeq(s, d + 1, Len(s))
                 IN IF ~(AllDigits(ip) /\ AllDigits(fp)) \/ (ip = << >> /\ fp = << >>)
                    THEN NaN
                    ELSE IF DecValue(fp) = 0 THEN Num(DecValue(ip)) ELSE Frac
            ELSE NaN

ToNumber(s) ==
    IF s = << >> THEN Num(0)
    ELSE IF Head(s) = "-"
         THEN LET u == UnsignedToNumber(Tail(s))
              IN IF u.k = "num" THEN Num(0 - u.v) ELSE u
         ELSE UnsignedToNumber(s)

\* Truthiness of a query-string value (undefined or a string).
Truthy(x) == x.k = "str" /\ x.v # << >>

(***************************************************************************)
(* State: the store (author rows, paper rows, the paper-author relation,   *)
(* the two id sequences) and the last request with its response; the       *)
(* database clock; the papers table of assignment 1 with its last row id;  *)
(* the createPaper calls in flight; the state of the PaperForm component.  *)
(***************************************************************************)
VARIABLES authorRows, paperRows, links, nextPaperId, nextAuthorId,
          req, resp, resolved, input,
          clock, papers, lastID, calls, form, net, paperList, edit

vars == <<authorRows, paperRows, links, nextPaperId, nextAuthorId,
          req, resp, resolved, input, clock, papers, lastID, calls, form,
          net, paperList, edit>>

\* The browser side: the fetches in flight, PaperList and EditPaper.
ui == <<net, paperList, edit>>

store == <<authorRows, paperRows, links, nextPaperId, nextAuthorId>>

Request(op, id, body, query) == [op |-> op, id |-> id, body |-> body, query |-> query]

Response(status, error, message, messages, data, handler, dbCalls, sends, forwarded) ==
    [status |-> status, error |-> error, message |-> message, messages |-> messages,
     data |-> data, handler |-> handler, dbCalls |-> dbCalls, args |-> Undef,
     sends |-> sends, forwarded |-> forwarded]

\* errorHandler: the top-level handler answers 500 when nothing was sent yet.
errorHandler(handler, dbCalls) ==
    Response(500, "Internal Server Error", "An unexpected error occurred", << >>,
             Undef, handler, dbCalls, 1, TRUE)

ValidationErrors(messages, handler) ==
    Response(400, "Validation Error", "", messages, Undef, handler, 0, 1, FALSE)

NotFound(what, dbCalls) ==
    Response(404, what, "", << >>, Undef, TRUE, dbCalls, 1, FALSE)

Ok(status, data, dbCalls) ==
    Response(status, "", "", << >>, data, TRUE, dbCalls, 1, FALSE)

(***************************************************************************)
(* validateResourceId                                                      *)
(***************************************************************************)
IdAcceptsZero(raw) == LET id == ToNumber(raw) IN id.k = "num" /\ id.v >= 0

IdValid(raw) == LET id == ToNumber(raw) IN id.k = "num" /\ id.v > 0

InvalidId ==
    Response(400, "Validation Error", "Invalid ID format", << >>, Undef, FALSE, 0, 1, FALSE)

(***************************************************************************)
(* Row timestamps of the Prisma models: createdAt is set to the time of    *)
(* the insert, updatedAt to the time of the insert and of every update.    *)
(***************************************************************************)
Stamped(row) == row @@ [createdAt |-> clock, updatedAt |-> clock]

Touched(old, row) == row @@ [createdAt |-> old.createdAt, updatedAt |-> clock]

(***************************************************************************)
(* Store queries                                                           *)
(***************************************************************************)
RowById(rows, id) == CHOOSE r \in rows : r.id = id

HasId(rows, id) == \E r \in rows : r.id = id

AuthorsOf(lk, pid) == {l[2] : l \in {m \in lk : m[1] = pid}}

PapersOf(lk, aid) == {l[1] : l \in {m \in lk : m[2] = aid}}

\* include: { authors: { orderBy: { id: "asc" } } }
PaperView(prow, arows, lk) ==
    LET ids == SortedSeq(AuthorsOf(lk, prow.id))
    IN [id |-> prow.id, title |-> prow.title, publishedIn |-> prow.publishedIn,
        year |-> prow.year, createdAt |-> prow.createdAt, updatedAt |-> prow.updatedAt,
        authors |-> [i \in 1..Len(ids) |-> RowById(arows, ids[i])]]

\* include: { papers: { orderBy: { id: "asc" } } }
AuthorView(arow, prows, lk) ==
    LET ids == SortedSeq(PapersOf(lk, arow.id))
    IN [id |-> arow.id, name |-> arow.name, email |-> arow.email,
        affiliation |-> arow.affiliation,
        createdAt |-> arow.createdAt, updatedAt |-> arow.updatedAt,
        papers |-> [i \in 1..Len(ids) |-> RowById(prows, ids[i])]]

(***************************************************************************)
(* findOrCreateAuthorId                                                    *)
(***************************************************************************)
\* A column written with an undefined value is stored as NULL.
NullIfUndef(x) == IF x.k = "undef" THEN Null ELSE x

\* A where-field whose value is undefined puts no condition on the column.
WhereField(w, stored) == w.k = "undef" \/ w = stored

AuthorWhere(a, row) ==
    /\ row.name = a.name.v
    /\ WhereField(a.email, row.email)
    /\ WhereField(a.affiliation, row.affiliation)

\* findFirst ... orderBy: { id: "asc" }  (0 when there is no such row)
findFirstNone(rows, a) == 0

findFirst(rows, a) ==
    LET M == {r.id : r \in {x \in rows : AuthorWhere(a, x)}}
    IN IF M = {} THEN 0 ELSE Min(M)

NewAuthorRow(id, a) ==
    Stamped([id |-> id, name |-> a.name.v, email |-> NullIfUndef(a.email),
             affiliation |-> NullIfUndef(a.affiliation)])

\* Promise.all(authors.map(findOrCreateAuthorId)): the lookups and inserts of
\* the authors of one request interleave.  order is the order in which the
\* authors reach their insert; an author at position k of that order looks up
\* after the inserts of the first vis[k] positions (vis[k] < k).
Schedules(n) ==
    {s \in [order : {f \in [1..n -> 1..n] : \A i, j \in 1..n : i # j => f[i] # f[j]},
            vis : [1..n -> 0..n]] :
        \A k \in 1..n : s.vis[k] < k}

RECURSIVE ResolveFrom(_, _, _, _, _)
ResolveFrom(k, acc, rows0, list, sched) ==
    IF k > Len(list) THEN acc
    ELSE LET i == sched.order[k]
             a == list[i]
             seen == rows0 \cup {r \in acc.rows :
                                   \E j \in 1..sched.vis[k] : acc.made[j] = r.id}
             found == findFirst(seen, a)
             id == IF found # 0 THEN found ELSE acc.nextId
             entry == [author |-> a, seen |-> seen, id |-> id, created |-> found = 0]
         IN ResolveFrom(k + 1,
                [rows |-> IF found # 0 THEN acc.rows
                          ELSE acc.rows \cup {NewAuthorRow(id, a)},
                 nextId |-> IF found # 0 THEN acc.nextId ELSE acc.nextId + 1,
                 ids |-> acc.ids \cup {id},
                 made |-> Append(acc.made, IF found # 0 THEN 0 ELSE id),
                 log |-> Append(acc.log, entry)],
                rows0, list, sched)

ResolveAuthors(rows, nextId, list, sched) ==
    ResolveFrom(1, [rows |-> rows, nextId |-> nextId, ids |-> {}, made |-> << >>,
                    log |-> << >>], rows, list, sched)

(***************************************************************************)
(* Text filters: startsWith / endsWith with mode "insensitive" are ILIKE   *)
(* patterns; "%" and "_" inside the value are not escaped.                 *)
(***************************************************************************)
RECURSIVE Like(_, _)
Like(p, t) ==
    IF p = << >> THEN t = << >>
    ELSE IF Head(p) = "%"
         THEN Like(Tail(p), t) \/ (t # << >> /\ Like(p, Tail(t)))
         ELSE /\ t # << >>
              /\ (Head(p) = "_" \/ Lower(Head(p)) = Lower(Head(t)))
              /\ Like(Tail(p), Tail(t))

startsWith(col, v) == Like(v \o <<"%">>, col)

endsWith(col, v) == Like(<<"%">> \o v, col)

\* where.<column> = { startsWith: `%${text}%`, endsWith: `%${text}%`, mode: "insensitive" }
TextFilter(col, text) ==
    /\ startsWith(col, <<"%">> \o text \o <<"%">>)
    /\ endsWith(col, <<"%">> \o text \o <<"%">>)

\* if (year) ... ; if (publishedIn) ...
PaperWhere(filters, row) ==
    /\ (filters.year.k = "num" /\ filters.year.v # 0) => row.year = filters.year.v
    /\ Truthy(filters.publishedIn) => TextFilter(row.publishedIn, filters.publishedIn.v)

AuthorListWhere(filters, row) ==
    /\ Truthy(filters.name) => TextFilter(row.name, filters.name.v)
    /\ Truthy(filters.affiliation) =>
          (row.affiliation.k = "str" /\ TextFilter(row.affiliation.v, filters.affiliation.v))

\* orderBy id asc, skip: offset, take: limit
PageNoTake(ids, limit, offset) ==
    LET all == SortedSeq(ids) IN SubSeq(all, offset + 1, Len(all))

PageNoSkip(ids, limit, offset) ==
    LET all == SortedSeq(ids) IN SubSeq(all, 1, IF limit < Len(all) THEN limit ELSE Len(all))

Page(ids, limit, offset) ==
    LET all == SortedSeq(ids)
        last == IF offset + limit < Len(all) THEN offset + limit ELSE Len(all)
    IN SubSeq(all, offset + 1, last)

getAllPapers(filters, prows, arows, lk) ==
    LET limit == IF filters.limit.k = "undef" THEN 10 ELSE filters.limit.v
        offset == IF filters.offset.k = "undef" THEN 0 ELSE filters.offset.v
        match == {r.id : r \in {x \in prows : PaperWhere(filters, x)}}
        page == Page(match, limit, offset)
    IN [papers |-> [i \in 1..Len(page) |-> PaperView(RowById(prows, page[i]), arows, lk)],
        total |-> Cardinality(match), limit |-> limit, offset |-> offset]

getAllAuthors(filters, prows, arows, lk) ==
    LET limit == IF filters.limit.k = "undef" THEN 10 ELSE filters.limit.v
        offset == IF filters.offset.k = "undef" THEN 0 ELSE filters.offset.v
        match == {r.id : r \in {x \in arows : AuthorListWhere(filters, x)}}
        page == Page(match, limit, offset)
    IN [authors |-> [i \in 1..Len(page) |-> AuthorView(RowById(arows, page[i]), prows, lk)],
        total |-> Cardinality(match), limit |-> limit, offset |-> offset]

(***************************************************************************)
(* validatePaperQueryParams / validateAuthorQueryParams                    *)
(***************************************************************************)
\* A parameter is checked only when its raw value is truthy; it is converted
\* with Number() and must be an integer inside its range.
ParsedNumber(x) == IF Truthy(x) THEN ToNumber(x.v) ELSE Undef

ParsedText(x) == IF Truthy(x) THEN x ELSE Undef

YearParamBad(x) ==
    Truthy(x) /\ LET n == ToNumber(x.v) IN ~(n.k = "num" /\ n.v > 1900)

LimitBad(x) ==
    Truthy(x) /\ LET n == ToNumber(x.v) IN ~(n.k = "num" /\ n.v >= 1 /\ n.v <= 100)

OffsetBad(x) ==
    Truthy(x) /\ LET n == ToNumber(x.v) IN ~(n.k = "num" /\ n.v >= 0)

validatePaperQueryParamsFails(q) ==
    YearParamBad(q.year) \/ LimitBad(q.limit) \/ OffsetBad(q.offset)

validatePaperQueryParams(q) ==
    [year |-> ParsedNumber(q.year), publishedIn |-> ParsedText(q.publishedIn),
     limit |-> ParsedNumber(q.limit), offset |-> ParsedNumber(q.offset)]

validateAuthorQueryParamsFails(q) == LimitBad(q.limit) \/ OffsetBad(q.offset)

validateAuthorQueryParams(q) ==
    [name |-> ParsedText(q.name), affiliation |-> ParsedText(q.affiliation),
     limit |-> ParsedNumber(q.limit), offset |-> ParsedNumber(q.offset)]

InvalidQuery ==
    Response(400, "Validation Error", "Invalid query parameter format", << >>, Undef,
             FALSE, 0, 1, FALSE)

\* limit: paperQuery?.limit || 10, offset: paperQuery?.offset || 0
OrDefault(x, d) == IF x.k = "num" /\ x.v # 0 THEN x ELSE Num(d)

(***************************************************************************)
(* Writes of the data layer                                                *)
(***************************************************************************)
\* authors: { set: [], connect: authorIds } on the paper with this id
ClearAuthors(lk, id, ids) == {l \in lk : l[1] # id}

MergeAuthors(lk, id, ids) == lk \cup {<<id, a>> : a \in ids}

ReplaceAuthors(lk, id, ids) ==
    {l \in lk : l[1] # id} \cup {<<id, a>> : a \in ids}

\* prisma.<model>.delete({ where: { id } })
DeleteRowKeeps(rows, id) == rows

DeleteRow(rows, id) == {r \in rows : r.id # id}

(***************************************************************************)
(* fetch: a request the browser has sent stays in net, first without a     *)
(* response, then with the one the handler sent, until the awaiting code   *)
(* has run (settled).  closure is what that code captured when it called   *)
(* fetch.                                                                  *)
(***************************************************************************)
Fetch(by, request, closure) ==
    [by |-> by, request |-> request, closure |-> closure, resp |-> Undef,
     settled |-> FALSE]

\* The promise rejected: no response will come.
Rejected == [status |-> 0]

\* response.ok
ok(response) == response.status \in 200..299

Waiting(f) == f.resp = Undef

\* res.json / res.end of a handler answers the oldest waiting fetch of this
\* request, if the browser sent it.
Answered(fetches, request, response) ==
    LET M == {i \in DOMAIN fetches : fetches[i].request = request /\ Waiting(fetches[i])}
    IN IF M = {} THEN fetches ELSE [fetches EXCEPT ![Min(M)].resp = response]

(***************************************************************************)
(* Routes: /api/papers                                                     *)
(***************************************************************************)
Reply(request, response, log) ==
    /\ req' = request
    /\ resp' = response
    /\ resolved' = log
    /\ input' = input
    /\ net' = Answered(net, request, response)
    /\ UNCHANGED <<clock, papers, lastID, calls, form, paperList, edit>>

\* POST /api/papers
PostPaper(body) ==
    LET request == Request("POST /api/papers", Undef, body, Undef)
    IN IF validatePaperInputThrows(body)
       THEN Reply(request, errorHandler(TRUE, 0), << >>) /\ UNCHANGED store
       ELSE IF validatePaperInput(body) # << >>
       THEN Reply(request, ValidationErrors(validatePaperInput(body), TRUE), << >>)
            /\ UNCHANGED store
       ELSE IF body.authors.k # "arr"
       THEN Reply(request, errorHandler(TRUE, 1), << >>) /\ UNCHANGED store
       ELSE \E sched \in Schedules(Len(body.authors.v)) :
              LET r == ResolveAuthors(authorRows, nextAuthorId, body.authors.v, sched)
                  row == Stamped([id |-> nextPaperId, title |-> body.title.v,
                                  publishedIn |-> body.publishedIn.v, year |-> body.year.v])
                  lk == links \cup {<<nextPaperId, a>> : a \in r.ids}
              IN /\ nextPaperId <= MaxPaperId
                 /\ r.nextId <= MaxAuthorId + 1
                 /\ authorRows' = r.rows
                 /\ nextAuthorId' = r.nextId
                 /\ paperRows' = paperRows \cup {row}
                 /\ nextPaperId' = nextPaperId + 1
                 /\ links' = lk
                 /\ Reply(request, Ok(201, PaperView(row, r.rows, lk), 1), r.log)

\* PUT /api/papers/:id
PutPaper(rawId, body) ==
    LET request == Request("PUT /api/papers/:id", rawId, body, Undef)
        id == ToNumber(rawId).v
    IN IF ~IdValid(rawId)
       THEN Reply(request, InvalidId, << >>) /\ UNCHANGED store
       ELSE IF validatePaperInputThrows(body)
       THEN Reply(request, errorHandler(TRUE, 0), << >>) /\ UNCHANGED store
       ELSE IF validatePaperInput(body) # << >>
       THEN Reply(request, ValidationErrors(validatePaperInput(body), TRUE), << >>)
            /\ UNCHANGED store
       ELSE IF body.authors.k # "arr"
       THEN Reply(request, errorHandler(TRUE, 1), << >>) /\ UNCHANGED store
       ELSE \E sched \in Schedules(Len(body.authors.v)) :
              LET r == ResolveAuthors(authorRows, nextAuthorId, body.authors.v, sched)
                  row == Touched(RowById(paperRows, id),
                                 [id |-> id, title |-> body.title.v,
                                  publishedIn |-> body.publishedIn.v, year |-> body.year.v])
                  lk == ReplaceAuthors(links, id, r.ids)
              IN /\ r.nextId <= MaxAuthorId + 1
                 /\ authorRows' = r.rows
                 /\ nextAuthorId' = r.nextId
                 /\ UNCHANGED nextPaperId
                 /\ IF HasId(paperRows, id)
                    THEN /\ paperRows' = {p \in paperRows : p.id # id} \cup {row}
                         /\ links' = lk
                         /\ Reply(request, Ok(200, PaperView(row, r.rows, lk), 1), r.log)
                    ELSE /\ UNCHANGED <<paperRows, links>>
                         /\ Reply(request, NotFound("Paper not found", 1), r.log)

\* GET /api/papers/:id
GetPaper(rawId) ==
    LET request == Request("GET /api/papers/:id", rawId, Undef, Undef)
        id == ToNumber(rawId).v
    IN /\ UNCHANGED store
       /\ IF ~IdValid(rawId)
          THEN Reply(request, InvalidId, << >>)
          ELSE IF HasId(paperRows, id)
          THEN Reply(request,
                     Ok(200, PaperView(RowById(paperRows, id), authorRows, links), 1), << >>)
          ELSE \* the 404 is sent without returning: res.json(paper) follows,
               \* throws on the sent response and the error goes to next(e)
               Reply(request,
                     [NotFound("Paper not found", 1) EXCEPT !.sends = 2, !.forwarded = TRUE],
                     << >>)

\* DELETE /api/papers/:id
DeletePaper(rawId) ==
    LET request == Request("DELETE /api/papers/:id", rawId, Undef, Undef)
        id == ToNumber(rawId).v
    IN IF ~IdValid(rawId)
       THEN Reply(request, InvalidId, << >>) /\ UNCHANGED store
       ELSE IF ~HasId(paperRows, id)
       THEN Reply(request, NotFound("Paper not found", 1), << >>) /\ UNCHANGED store
       ELSE /\ paperRows' = DeleteRow(paperRows, id)
            /\ links' = {l \in links : l[1] # id}
            /\ UNCHANGED <<authorRows, nextPaperId, nextAuthorId>>
            /\ Reply(request, Ok(204, Undef, 2), << >>)

\* GET /api/papers
GetPapers(q) ==
    LET request == Request("GET /api/papers", Undef, Undef, q)
        paperQuery == validatePaperQueryParams(q)
        filters == [year |-> paperQuery.year, publishedIn |-> paperQuery.publishedIn,
                    limit |-> OrDefault(paperQuery.limit, 10),
                    offset |-> OrDefault(paperQuery.offset, 0)]
    IN /\ UNCHANGED store
       /\ IF validatePaperQueryParamsFails(q)
          THEN Reply(request, InvalidQuery, << >>)
          ELSE Reply(request,
                     [Ok(200, getAllPapers(filters, paperRows, authorRows, links), 1)
                        EXCEPT !.args = filters],
                     << >>)

(***************************************************************************)
(* Routes: /api/authors                                                    *)
(***************************************************************************)
\* POST /api/authors
PostAuthor(body) ==
    LET request == Request("POST /api/authors", Undef, body, Undef)
        row == NewAuthorRow(nextAuthorId, body)
    IN IF validateAuthorInputThrows(body)
       THEN Reply(request, errorHandler(TRUE, 0), << >>) /\ UNCHANGED store
       ELSE IF validateAuthorInput(body) # << >>
       THEN Reply(request, ValidationErrors(validateAuthorInput(body), TRUE), << >>)
            /\ UNCHANGED store
       ELSE /\ nextAuthorId <= MaxAuthorId
            /\ authorRows' = authorRows \cup {row}
            /\ nextAuthorId' = nextAuthorId + 1
            /\ UNCHANGED <<paperRows, links, nextPaperId>>
            /\ Reply(request, Ok(201, AuthorView(row, paperRows, links), 1), << >>)

\* PUT /api/authors/:id  (an undefined field in the update data is left as stored)
PutAuthor(rawId, body) ==
    LET request == Request("PUT /api/authors/:id", rawId, body, Undef)
        id == ToNumber(rawId).v
    IN IF ~IdValid(rawId)
       THEN Reply(request, InvalidId, << >>) /\ UNCHANGED store
       ELSE IF validateAuthorInputThrows(body)
       THEN Reply(request, errorHandler(TRUE, 0), << >>) /\ UNCHANGED store
       ELSE IF validateAuthorInput(body) # << >>
       THEN Reply(request, ValidationErrors(validateAuthorInput(body), TRUE), << >>)
            /\ UNCHANGED store
       ELSE IF ~HasId(authorRows, id)
       THEN Reply(request, NotFound("Author not found", 1), << >>) /\ UNCHANGED store
       ELSE LET old == RowById(authorRows, id)
                row == Touched(old,
                          [id |-> id, name |-> body.name.v,
                           email |-> IF body.email.k = "undef" THEN old.email ELSE body.email,
                           affiliation |-> IF body.affiliation.k = "undef"
                                           THEN old.affiliation ELSE body.affiliation])
            IN /\ authorRows' = (authorRows \ {old}) \cup {row}
               /\ UNCHANGED <<paperRows, links, nextPaperId, nextAuthorId>>
               /\ Reply(request, Ok(200, AuthorView(row, paperRows, links), 1), << >>)

\* GET /api/authors/:id
GetAuthor(rawId) ==
    LET request == Request("GET /api/authors/:id", rawId, Undef, Undef)
        id == ToNumber(rawId).v
    IN /\ UNCHANGED store
       /\ IF ~IdValid(rawId)
          THEN Reply(request, InvalidId, << >>)
          ELSE IF HasId(authorRows, id)
          THEN Reply(request,
                     Ok(200, AuthorView(RowById(authorRows, id), paperRows, links), 1), << >>)
          ELSE Reply(request, NotFound("Author not found", 1), << >>)

\* db.deleteAuthor: the author is the only author of one of their papers
OnlyAuthorOfEveryPaper(id) ==
    /\ PapersOf(links, id) # {}
    /\ \A p \in PapersOf(links, id) : Cardinality(AuthorsOf(links, p)) = 1

OnlyAuthorOfSomePaper(id) ==
    \E p \in PapersOf(links, id) : Cardinality(AuthorsOf(links, p)) = 1

ConstraintError ==
    Response(400, "Constraint Error",
             "Cannot delete author: they are the only author of one or more papers",
             << >>, Undef, TRUE, 2, 1, FALSE)

\* DELETE /api/authors/:id
DeleteAuthor(rawId) ==
    LET request == Request("DELETE /api/authors/:id", rawId, Undef, Undef)
        id == ToNumber(rawId).v
    IN IF ~IdValid(rawId)
       THEN Reply(request, InvalidId, << >>) /\ UNCHANGED store
       ELSE IF ~HasId(authorRows, id)
       THEN Reply(request, NotFound("Author not found", 1), << >>) /\ UNCHANGED store
       ELSE IF OnlyAuthorOfSomePaper(id)
       THEN Reply(request, ConstraintError, << >>) /\ UNCHANGED store
       ELSE /\ authorRows' = DeleteRow(authorRows, id)
            /\ links' = {l \in links : l[2] # id}
            /\ UNCHANGED <<paperRows, nextPaperId, nextAuthorId>>
            /\ Reply(request, Ok(204, Undef, 2), << >>)

\* GET /api/authors
GetAuthors(q) ==
    LET request == Request("GET /api/authors", Undef, Undef, q)
        authorQuery == validateAuthorQueryParams(q)
        filters == [name |-> authorQuery.name, affiliation |-> authorQuery.affiliation,
                    limit |-> OrDefault(authorQuery.limit, 10),
                    offset |-> OrDefault(authorQuery.offset, 0)]
    IN /\ UNCHANGED store
       /\ IF validateAuthorQueryParamsFails(q)
          THEN Reply(request, InvalidQuery, << >>)
          ELSE Reply(request,
                     [Ok(200, getAllAuthors(filters, paperRows, authorRows, links), 1)
                        EXCEPT !.args = filters],
                     << >>)

(***************************************************************************)
(* db.createPaper calls that overlap in time.  Each await of a call is a   *)
(* step of its own: per author the findFirst and, when nothing was found,  *)
(* the create of findOrCreateAuthorId; then the insert of the paper.       *)
(***************************************************************************)
NewCall(body) ==
    [body |-> body, pc |-> "resolving",
     steps |-> [j \in 1..Len(body.authors.v) |->
                  [pc |-> "find", author |-> body.authors.v[j], seen |-> {}, id |-> 0,
                   created |-> FALSE]]]

StepDone(c, j, step) ==
    /\ calls' = [calls EXCEPT ![c].steps[j] = step]
    /\ UNCHANGED <<req, resp, resolved, input, clock, papers, lastID, form, ui>>

\* prisma.author.findFirst of findOrCreateAuthorId
AuthorLookup(c, j) ==
    LET st == calls[c].steps[j]
        found == findFirst(authorRows, st.author)
    IN /\ calls[c].pc = "resolving"
       /\ st.pc = "find"
       /\ UNCHANGED store
       /\ StepDone(c, j, [st EXCEPT !.pc = IF found # 0 THEN "done" ELSE "create",
                                    !.seen = authorRows, !.id = found])

\* prisma.author.create of findOrCreateAuthorId
AuthorInsert(c, j) ==
    LET st == calls[c].steps[j]
    IN /\ calls[c].pc = "resolving"
       /\ st.pc = "create"
       /\ authorRows' = authorRows \cup {NewAuthorRow(nextAuthorId, st.author)}
       /\ nextAuthorId' = nextAuthorId + 1
       /\ UNCHANGED <<paperRows, links, nextPaperId>>
       /\ StepDone(c, j, [st EXCEPT !.pc = "done", !.id = nextAuthorId, !.created = TRUE])

\* prisma.paper.create of db.createPaper, and the 201 of the route
PaperInsert(c) ==
    LET call == calls[c]
        body == call.body
        ids == {call.steps[j].id : j \in 1..Len(call.steps)}
        row == Stamped([id |-> nextPaperId, title |-> body.title.v,
                        publishedIn |-> body.publishedIn.v, year |-> body.year.v])
        lk == links \cup {<<nextPaperId, a>> : a \in ids}
    IN /\ call.pc = "resolving"
       /\ \A j \in 1..Len(call.steps) : call.steps[j].pc = "done"
       /\ paperRows' = paperRows \cup {row}
       /\ nextPaperId' = nextPaperId + 1
       /\ links' = lk
       /\ UNCHANGED <<authorRows, nextAuthorId>>
       /\ calls' = [calls EXCEPT ![c].pc = "done"]
       /\ req' = Request("POST /api/papers", Undef, body, Undef)
       /\ resp' = Ok(201, PaperView(row, authorRows, lk), 1)
       /\ resolved' = [j \in 1..Len(call.steps) |->
                         [author |-> call.steps[j].author, seen |-> call.steps[j].seen,
                          id |-> call.steps[j].id, created |-> call.steps[j].created]]
       /\ UNCHANGED <<input, clock, papers, lastID, form, ui>>

(***************************************************************************)
(* A PUT /api/papers/:id whose db.updatePaper call overlaps other requests:*)
(* the authors are resolved by the steps of findOrCreateAuthorId above,    *)
(* then prisma.paper.update runs as one step.                              *)
(***************************************************************************)
NewUpdate(rawId, body) == NewCall(body) @@ [rawId |-> rawId]

\* The request has passed validateResourceId and validatePaperInput.
StartUpdate(rawId, body) ==
    /\ calls = << >>
    /\ IdValid(rawId)
    /\ ~validatePaperInputThrows(body)
    /\ validatePaperInput(body) = << >>
    /\ body.authors.k = "arr"
    /\ calls' = <<NewUpdate(rawId, body)>>
    /\ UNCHANGED <<store, req, resp, resolved, input, clock, papers, lastID, form, ui>>

\* prisma.paper.update throws P2025 when the paper to update is missing and
\* also when a record to connect is missing; nothing is written then.
RecordNotFound(id, ids) ==
    \/ ~HasId(paperRows, id)
    \/ \E a \in ids : ~HasId(authorRows, a)

\* prisma.paper.update of db.updatePaper, and the response of the route
PaperUpdate(c) ==
    LET call == calls[c]
        body == call.body
        id == ToNumber(call.rawId).v
        ids == {call.steps[j].id : j \in 1..Len(call.steps)}
        row == Touched(RowById(paperRows, id),
                       [id |-> id, title |-> body.title.v,
                        publishedIn |-> body.publishedIn.v, year |-> body.year.v])
        lk == ReplaceAuthors(links, id, ids)
    IN /\ call.pc = "resolving"
       /\ \A j \in 1..Len(call.steps) : call.steps[j].pc = "done"
       /\ calls' = [calls EXCEPT ![c].pc = "done"]
       /\ req' = Request("PUT /api/papers/:id", call.rawId, body, Undef)
       /\ resolved' = [j \in 1..Len(call.steps) |->
                         [author |-> call.steps[j].author, seen |-> call.steps[j].seen,
                          id |-> call.steps[j].id, created |-> call.steps[j].created]]
       /\ UNCHANGED <<authorRows, nextPaperId, nextAuthorId, input, clock, papers,
                      lastID, form, ui>>
       /\ IF RecordNotFound(id, ids)
          THEN /\ UNCHANGED <<paperRows, links>>
               /\ resp' = NotFound("Paper not found", 1)
          ELSE /\ paperRows' = {p \in paperRows : p.id # id} \cup {row}
               /\ links' = lk
               /\ resp' = Ok(200, PaperView(row, authorRows, lk), 1)

(***************************************************************************)
(* DELETE /api/authors/:id requests that overlap in time.  Each await of   *)
(* the handler is a step of its own: db.getAuthorById of the route, then   *)
(* the findUnique and the delete of db.deleteAuthor.                       *)
(***************************************************************************)
NewDelete(rawId) == [rawId |-> rawId, pc |-> "get", status |-> 0]

DeleteStep(c, pc) ==
    /\ calls' = [calls EXCEPT ![c].pc = pc]
    /\ UNCHANGED <<store, req, resp, resolved, input, clock, papers, lastID, form, ui>>

DeleteDone(c, response) ==
    /\ calls' = [calls EXCEPT ![c].pc = "done", ![c].status = response.status]
    /\ req' = Request("DELETE /api/authors/:id", calls[c].rawId, Undef, Undef)
    /\ resp' = response
    /\ resolved' = << >>
    /\ UNCHANGED <<input, clock, papers, lastID, form, ui>>

\* const author = await db.getAuthorById(authorId); if (!author) return 404
DeleteAuthorGet(c) ==
    LET id == ToNumber(calls[c].rawId).v
    IN /\ calls[c].pc = "get"
       /\ UNCHANGED store
       /\ IF HasId(authorRows, id)
          THEN DeleteStep(c, "check")
          ELSE DeleteDone(c, NotFound("Author not found", 1))

\* db.deleteAuthor: findUnique with the papers and their authors; no author:
\* return (the route answers 204); a paper with one author: throw (400)
DeleteAuthorCheck(c) ==
    LET id == ToNumber(calls[c].rawId).v
    IN /\ calls[c].pc = "check"
       /\ UNCHANGED store
       /\ IF ~HasId(authorRows, id)
          THEN DeleteDone(c, Ok(204, Undef, 2))
          ELSE IF OnlyAuthorOfSomePaper(id)
          THEN DeleteDone(c, ConstraintError)
          ELSE DeleteStep(c, "delete")

\* db.deleteAuthor: prisma.author.delete; a missing row throws P2025, which
\* the route rethrows to the error handler
DeleteAuthorRun(c) ==
    LET id == ToNumber(calls[c].rawId).v
    IN /\ calls[c].pc = "delete"
       /\ IF ~HasId(authorRows, id)
          THEN UNCHANGED store /\ DeleteDone(c, errorHandler(TRUE, 2))
          ELSE /\ authorRows' = DeleteRow(authorRows, id)
               /\ links' = {l \in links : l[2] # id}
               /\ UNCHANGED <<paperRows, nextPaperId, nextAuthorId>>
               /\ DeleteDone(c, Ok(204, Undef, 2))

\* Two requests have passed validateResourceId and entered the handler.
StartDeletes(a, b) ==
    /\ calls = << >>
    /\ IdValid(a) /\ IdValid(b)
    /\ calls' = <<NewDelete(a), NewDelete(b)>>
    /\ UNCHANGED <<store, req, resp, resolved, input, clock, papers, lastID, form, ui>>

(***************************************************************************)
(* Assignment 1: the SQLite table `papers` (authors is a text column), its *)
(* data layer and the routes that write it.  CURRENT_TIMESTAMP is clock.   *)
(***************************************************************************)
Paper1(title, authors, published_in, year) ==
    [title |-> title, authors |-> authors, published_in |-> published_in, year |-> year]

\* x === undefined || x === null || x.toString().trim() === ""
MissingOrBlank1(x) ==
    \/ x.k \in {"undef", "null"}
    \/ x.k = "str" /\ Trim(x.v) = << >>

\* Number(paper.year): a number as it is, a string converted
YearNumber(y) == IF y.k = "str" THEN ToNumber(y.v) ELSE y

validatePaper(paper) ==
    (IF MissingOrBlank1(paper.title) THEN <<"Title is required">> ELSE << >>)
    \o (IF MissingOrBlank1(paper.authors) THEN <<"Authors are required">> ELSE << >>)
    \o (IF MissingOrBlank1(paper.published_in)
        THEN <<"Published venue is required">> ELSE << >>)
    \o (IF paper.year.k \in {"undef", "null"} \/ paper.year = Str(<< >>)
        THEN <<"Published year is required">>
        ELSE IF ~YearOk(YearNumber(paper.year))
             THEN <<"Valid year after 1900 is required">> ELSE << >>)

\* const id = Number(req.params.id); Number.isInteger(id) && id > 0
validateId(raw) == LET id == ToNumber(raw) IN id.k = "num" /\ id.v > 0

\* SELECT * FROM papers WHERE id = ?
getPaperById(rows, id) == IF HasId(rows, id) THEN RowById(rows, id) ELSE Null

\* INSERT INTO papers (title, authors, published_in, year): the id is the
\* next of the AUTOINCREMENT sequence, both timestamps default to now.
createPaper(rows, id, paper, now) ==
    rows \cup {[id |-> id, title |-> paper.title, authors |-> paper.authors,
                published_in |-> paper.published_in, year |-> YearNumber(paper.year),
                created_at |-> now, updated_at |-> now]}

\* UPDATE papers SET title, authors, published_in, year,
\*                   updated_at = CURRENT_TIMESTAMP WHERE id = ?
updatePaperNoTouch(rows, id, paper, now) ==
    {IF r.id = id
     THEN [r EXCEPT !.title = paper.title, !.authors = paper.authors,
                    !.published_in = paper.published_in,
                    !.year = YearNumber(paper.year)]
     ELSE r : r \in rows}

updatePaper(rows, id, paper, now) ==
    {IF r.id = id
     THEN [r EXCEPT !.title = paper.title, !.authors = paper.authors,
                    !.published_in = paper.published_in,
                    !.year = YearNumber(paper.year), !.updated_at = now]
     ELSE r : r \in rows}

\* DELETE FROM papers WHERE id = ?
deletePaper(rows, id) == {r \in rows : r.id # id}

\* created_at.replace(" ", "T") + ".000Z", and the same for updated_at
Iso(t) == [k |-> "iso", t |-> t]

toISODateTime(paper) ==
    [paper EXCEPT !.created_at = Iso(paper.created_at),
                  !.updated_at = Iso(paper.updated_at)]

\* { ...paper, ...req.body }: the fields of the body replace those of the row
Spread(paper, body) ==
    [f \in DOMAIN paper |->
        IF f \in DOMAIN body /\ body[f].k # "undef" THEN body[f] ELSE paper[f]]

Reply1(request, response) ==
    /\ req' = request
    /\ resp' = response
    /\ UNCHANGED <<store, resolved, input, clock, calls, form, ui>>

\* POST /api/papers (assignment 1)
PostPaper1(body) ==
    LET request == Request("POST /api/papers (1)", Undef, body, Undef)
        id == lastID + 1
        rows == createPaper(papers, id, body, clock)
    IN IF validatePaper(body) # << >>
       THEN Reply1(request, ValidationErrors(validatePaper(body), TRUE))
            /\ UNCHANGED <<papers, lastID>>
       ELSE /\ lastID < MaxPaperId
            /\ papers' = rows
            /\ lastID' = id
            /\ Reply1(request, Ok(201, toISODateTime(getPaperById(rows, id)), 2))

\* PUT /api/papers/:id (assignment 1)
PutPaper1(rawId, body) ==
    LET request == Request("PUT /api/papers/:id (1)", rawId, body, Undef)
        paperId == ToNumber(rawId).v
        paper == getPaperById(papers, paperId)
        rows == updatePaper(papers, paperId, Spread(paper, body), clock)
    IN /\ UNCHANGED lastID
       /\ IF ~validateId(rawId)
          THEN Reply1(request, InvalidId) /\ UNCHANGED papers
          ELSE IF validatePaper(body) # << >>
          THEN Reply1(request, ValidationErrors(validatePaper(body), TRUE))
               /\ UNCHANGED papers
          ELSE IF paper = Null
          THEN Reply1(request, NotFound("Paper not found", 1)) /\ UNCHANGED papers
          ELSE /\ papers' = rows
               /\ Reply1(request, Ok(200, toISODateTime(getPaperById(rows, paperId)), 3))

\* DELETE /api/papers/:id (assignment 1)
DeletePaper1(rawId) ==
    LET request == Request("DELETE /api/papers/:id (1)", rawId, Undef, Undef)
        paperId == ToNumber(rawId).v
    IN /\ UNCHANGED lastID
       /\ IF ~validateId(rawId)
          THEN Reply1(request, InvalidId) /\ UNCHANGED papers
          ELSE IF getPaperById(papers, paperId) = Null
          THEN Reply1(request, NotFound("Paper not found", 1)) /\ UNCHANGED papers
          ELSE /\ papers' = deletePaper(papers, paperId)
               /\ Reply1(request, Ok(204, Undef, 2))

\* Time passes between two requests.
Tick ==
    /\ clock < MaxClock
    /\ clock' = clock + 1
    /\ UNCHANGED <<store, req, resp, resolved, input, papers, lastID, calls, form, ui>>

(***************************************************************************)
(* PaperForm (assignment 3): the form data, the error shown and what the   *)
(* last event handler did.  paper is TRUE in edit mode (the prop is set).  *)
(***************************************************************************)
FormData(title, publishedIn, year, authorIds) ==
    [title |-> title, publishedIn |-> publishedIn, year |-> year, authorIds |-> authorIds]

\* useState of the component: the paper's values in edit mode, otherwise
\* empty texts, the current year and no author.
PaperForm(paper, data) ==
    [k |-> "form", paper |-> paper, formData |-> data, error |-> Null, last |-> "mount",
     onSubmit |-> Undef]

\* The checks of handleSubmit: the message of the first one that fails, or
\* null when none does.
validateFormAuthorsAlways(paper, data) ==
    IF Trim(data.title) = << >> THEN Str("Title is required")
    ELSE IF Trim(data.publishedIn) = << >> THEN Str("Publication venue is required")
    ELSE IF data.year = Num(0) THEN Str("Publication year is required")
    ELSE IF data.year.k # "num" \/ data.year.v <= 1900
         THEN Str("Valid year after 1900 is required")
    ELSE IF Len(data.authorIds) = 0 THEN Str("Please select at least one author")
    ELSE Null

validateForm(paper, data) ==
    IF Trim(data.title) = << >> THEN Str("Title is required")
    ELSE IF Trim(data.publishedIn) = << >> THEN Str("Publication venue is required")
    ELSE IF data.year = Num(0) THEN Str("Publication year is required")
    ELSE IF data.year.k # "num" \/ data.year.v <= 1900
         THEN Str("Valid year after 1900 is required")
    ELSE IF ~paper /\ Len(data.authorIds) = 0 THEN Str("Please select at least one author")
    ELSE Null

FormStep(next) ==
    /\ form' = next
    /\ UNCHANGED <<store, req, resp, resolved, input, clock, papers, lastID, calls>>

handleSubmit ==
    LET e == validateForm(form.paper, form.formData)
    IN FormStep([form EXCEPT !.error = e,
                             !.last = IF e = Null THEN "submitted" ELSE "rejected",
                             !.onSubmit = IF e = Null THEN form.formData ELSE Undef])

\* handleChange: the year field is stored as Number(value), the others as text
handleChange(name, value) ==
    FormStep([form EXCEPT !.formData =
                 IF name = "year" THEN [form.formData EXCEPT !.year = ToNumber(value)]
                 ELSE IF name = "title" THEN [form.formData EXCEPT !.title = value]
                 ELSE [form.formData EXCEPT !.publishedIn = value],
              !.last = "change", !.onSubmit = Undef])

\* onChange of AuthorSelect
selectAuthors(authorIds) ==
    FormStep([form EXCEPT !.formData.authorIds = authorIds,
                          !.last = "change", !.onSubmit = Undef])

(***************************************************************************)
(* Request inputs                                                          *)
(***************************************************************************)
Paper(title, publishedIn, year, authors) ==
    [title |-> title, publishedIn |-> publishedIn, year |-> year, authors |-> authors]

Author(name, email, affiliation) ==
    [k |-> "obj", name |-> name, email |-> email, affiliation |-> affiliation]

AuthorAE == Author(Str(<<"A">>), Str(<<"e">>), Undef)
AuthorA == Author(Str(<<"A">>), Undef, Undef)
AuthorB == Author(Str(<<"B">>), Null, Null)
AuthorBU == Author(Str(<<"B">>), Null, Str(<<"U">>))
AuthorNoName == Author(Undef, Str(<<"e">>), Undef)
AuthorBlank == Author(Str(<<" ">>), Undef, Undef)

EmptyBody == Paper(Undef, Undef, Undef, Undef)

RawIds == {<<"1">>, <<"2">>, <<"0">>, <<"-", "1">>, <<"a">>, <<"1", ".", "5">>}

\* Inputs of the request-sequence specification.
ValidAuthors == {AuthorAE, AuthorA}

AuthorLists == {<<AuthorAE>>, <<AuthorA>>, <<AuthorA, AuthorAE>>, <<AuthorA, AuthorA>>}

PaperBodies ==
    {Paper(Str(<<"T">>), Str(<<"I", "c">>), Num(2024), Arr(l)) : l \in AuthorLists}
        \cup {EmptyBody}

AuthorBodies == ValidAuthors \cup {AuthorNoName}

NoQuery == [year |-> Undef, publishedIn |-> Undef, limit |-> Undef, offset |-> Undef]

PaperQueries ==
    {[NoQuery EXCEPT !.limit = Str(<<"1">>), !.offset = Str(<<"1">>)],
     [NoQuery EXCEPT !.limit = Str(<<"0">>)]}

NoAuthorQuery == [name |-> Undef, affiliation |-> Undef, limit |-> Undef, offset |-> Undef]

AuthorQueries ==
    {[NoAuthorQuery EXCEPT !.name = Str(<<"a">>)],
     [NoAuthorQuery EXCEPT !.offset = Str(<<"-", "1">>)]}

(***************************************************************************)
(* PaperList (assignment 3): the papers, the loading flag, the error and   *)
(* the message of the component, and what its last event handler did.      *)
(***************************************************************************)
\* What a step of the browser leaves alone.
server == <<store, req, resp, resolved, input, clock, papers, lastID, calls>>

\* `/api/papers/${paperId}`: the decimal digits of the id
DigitChar(d) == CHOOSE c \in Digits : DigitVal(c) = d

RECURSIVE Decimal(_)
Decimal(n) ==
    IF n < 10 THEN <<DigitChar(n)>> ELSE Decimal(n \div 10) \o <<DigitChar(n % 10)>>

\* useState of the component, and the fetch of its effect
PaperList ==
    [k |-> "list", papers |-> << >>, loading |-> TRUE, error |-> Null, message |-> Null,
     last |-> "mount"]

fetchPapers == Fetch("fetchPapers", Request("GET /api/papers", Undef, Undef, NoQuery), Undef)

\* What the component renders: one of the three state messages, or the
\* message area and the papers.
Rendered(l) ==
    IF l.loading THEN [text |-> "Loading papers... ", message |-> Null, papers |-> << >>]
    ELSE IF l.error # Null THEN [text |-> l.error.v, message |-> Null, papers |-> << >>]
    ELSE IF Len(l.papers) = 0
         THEN [text |-> "No papers found", message |-> Null, papers |-> << >>]
    ELSE [text |-> "", message |-> l.message, papers |-> l.papers]

\* fetchPapers after the await: try / catch / finally
fetchPapersNoFinally(l, response) ==
    IF ok(response)
    THEN [l EXCEPT !.papers = response.data.papers, !.loading = FALSE, !.last = "fetched"]
    ELSE [l EXCEPT !.error = Str("Error loading papers"), !.last = "fetched"]

fetchPapersThen(l, response) ==
    IF ok(response)
    THEN [l EXCEPT !.papers = response.data.papers, !.loading = FALSE, !.last = "fetched"]
    ELSE [l EXCEPT !.error = Str("Error loading papers"), !.loading = FALSE,
                   !.last = "fetched"]

\* The promise of a fetch rejects (the request did not get through).
FetchRejects(f) ==
    /\ Waiting(net[f])
    /\ net' = [net EXCEPT ![f].resp = Rejected]
    /\ UNCHANGED <<server, form, paperList, edit>>

\* The await of fetchPapers resumes.
fetchPapersSettles(f) ==
    /\ net[f].by = "fetchPapers"
    /\ ~Waiting(net[f]) /\ ~net[f].settled
    /\ paperList' = fetchPapersThen(paperList, net[f].resp)
    /\ net' = [net EXCEPT ![f].settled = TRUE]
    /\ UNCHANGED <<server, form, edit>>

\* The Delete button of a displayed paper: handleDelete up to the fetch.
handleDelete(paperId, confirm) ==
    /\ paperList.k = "list"
    /\ \E i \in DOMAIN Rendered(paperList).papers :
          Rendered(paperList).papers[i].id = paperId
    /\ IF ~confirm
       THEN /\ paperList' = [paperList EXCEPT !.message = Null, !.last = "cancel"]
            /\ UNCHANGED net
       ELSE /\ Len(net) < MaxFetches
            /\ paperList' = [paperList EXCEPT !.message = Null, !.last = "delete"]
            /\ net' = Append(net,
                         Fetch("handleDelete",
                               Request("DELETE /api/papers/:id", Decimal(paperId),
                                       Undef, Undef),
                               [paperId |-> paperId, papers |-> paperList.papers]))
    /\ UNCHANGED <<server, form, edit>>

\* handleDelete after the await; papers is the state the handler captured
\* when it was called.
handleDeleteThen(l, closure, response) ==
    IF ok(response)
    THEN [l EXCEPT !.papers = SelectSeq(closure.papers,
                                        LAMBDA paper : paper.id # closure.paperId),
                   !.message = Str("Paper deleted successfully"), !.last = "deleted"]
    ELSE [l EXCEPT !.message = Str("Error deleting paper"), !.last = "not deleted"]

\* The await of handleDelete resumes.
handleDeleteSettles(f) ==
    /\ net[f].by = "handleDelete"
    /\ ~Waiting(net[f]) /\ ~net[f].settled
    /\ paperList' = handleDeleteThen(paperList, net[f].closure, net[f].resp)
    /\ net' = [net EXCEPT ![f].settled = TRUE]
    /\ UNCHANGED <<server, form, edit>>

(***************************************************************************)
(* EditPaper (assignment 3): the id of the route, the paper fetched, the   *)
(* loading and error flags, the message, the navigation timers that are    *)
(* pending and where the browser is.  Its PaperForm is the variable form.  *)
(***************************************************************************)
\* useState of the component, and the fetch of its effect
EditPaper(id) ==
    [k |-> "edit", id |-> id, paper |-> Null, loading |-> TRUE, loadError |-> FALSE,
     message |-> Null, timers |-> 0, at |-> "edit"]

fetchPaper(id) == Fetch("fetchPaper", Request("GET /api/papers/:id", id, Undef, Undef), Undef)

\* fetchPaper after the await: 404, another failure, or the paper
fetchPaperThen(e, response) ==
    IF response.status = 404 THEN [e EXCEPT !.paper = Null, !.loading = FALSE]
    ELSE IF ~ok(response) THEN [e EXCEPT !.loadError = TRUE, !.loading = FALSE]
    ELSE [e EXCEPT !.paper = response.data, !.loading = FALSE]

\* What the page shows in place of the form, if anything.
EditShows(e) ==
    IF e.loading THEN "Loading paper details..."
    ELSE IF e.loadError THEN "Error loading paper"
    ELSE IF e.paper = Null THEN "Paper not found"
    ELSE "Edit Paper"

\* The await of fetchPaper resumes; with a paper the form is mounted on it.
fetchPaperSettles(f) ==
    LET next == fetchPaperThen(edit, net[f].resp)
        paper == next.paper
    IN /\ net[f].by = "fetchPaper"
       /\ ~Waiting(net[f]) /\ ~net[f].settled
       /\ edit' = next
       /\ net' = [net EXCEPT ![f].settled = TRUE]
       /\ form' = IF EditShows(next) = "Edit Paper"
                  THEN PaperForm(TRUE,
                          FormData(paper.title, paper.publishedIn, Num(paper.year),
                                   [i \in DOMAIN paper.authors |-> paper.authors[i].id]))
                  ELSE form
       /\ UNCHANGED <<server, paperList>>

\* The update payload: the fields of the form and the authors of the paper
\* as fetched.  JSON.stringify leaves its texts, integers and nulls as they are.
updatePayloadSelected(paper, paperData) ==
    Paper(Str(paperData.title), Str(paperData.publishedIn), paperData.year,
          Arr(SelectSeq([i \in DOMAIN paper.authors |->
                           [k |-> "obj", id |-> paper.authors[i].id,
                            name |-> Str(paper.authors[i].name),
                            email |-> paper.authors[i].email,
                            affiliation |-> paper.authors[i].affiliation]],
                        LAMBDA a : \E j \in DOMAIN paperData.authorIds :
                                      paperData.authorIds[j] = a.id)))

updatePayload(paper, paperData) ==
    Paper(Str(paperData.title), Str(paperData.publishedIn), paperData.year,
          Arr([i \in DOMAIN paper.authors |->
                 Author(Str(paper.authors[i].name), paper.authors[i].email,
                        paper.authors[i].affiliation)]))

\* handleUpdatePaper up to the fetch
handleUpdatePaper(paperData) ==
    IF edit.paper = Null
    THEN UNCHANGED ui
    ELSE /\ Len(net) < MaxFetches
         /\ edit' = [edit EXCEPT !.message = Null]
         /\ net' = Append(net,
                      Fetch("handleUpdatePaper",
                            Request("PUT /api/papers/:id", edit.id,
                                    updatePayload(edit.paper, paperData), Undef),
                            [timers |-> edit.timers]))
         /\ UNCHANGED paperList

\* The form is submitted: handleSubmit, which awaits onSubmit(formData) when
\* no check fails.
Submit ==
    /\ handleSubmit
    /\ IF form'.onSubmit # Undef THEN handleUpdatePaper(form'.onSubmit) ELSE UNCHANGED ui

\* handleUpdatePaper after the await
handleUpdatePaperThen(e, response) ==
    IF ok(response)
    THEN [e EXCEPT !.message = Str("Paper updated successfully"), !.timers = e.timers + 1]
    ELSE [e EXCEPT !.message = Str("Error updating paper")]

\* The await of handleUpdatePaper resumes.
handleUpdatePaperSettles(f) ==
    /\ net[f].by = "handleUpdatePaper"
    /\ ~Waiting(net[f]) /\ ~net[f].settled
    /\ edit' = handleUpdatePaperThen(edit, net[f].resp)
    /\ net' = [net EXCEPT ![f].settled = TRUE]
    /\ UNCHANGED <<server, form, paperList>>

\* setTimeout(() => navigate("/"), 3000) fires: the page is left.
Navigate ==
    /\ edit.timers > 0
    /\ edit' = [edit EXCEPT !.timers = edit.timers - 1, !.at = "home"]
    /\ UNCHANGED <<server, form, net, paperList>>

\* The form is on the screen and takes events.
FormShown == form # Undef /\ edit.at = "edit"

\* The server handles a request the browser is waiting for.
Serve(f) ==
    /\ Waiting(net[f])
    /\ CASE net[f].request.op = "GET /api/papers" -> GetPapers(net[f].request.query)
         [] net[f].request.op = "DELETE /api/papers/:id" -> DeletePaper(net[f].request.id)
         [] net[f].request.op = "GET /api/papers/:id" -> GetPaper(net[f].request.id)
         [] net[f].request.op = "PUT /api/papers/:id" ->
                PutPaper(net[f].request.id, net[f].request.body)

(***************************************************************************)
(* Specification: any sequence of non-overlapping requests.                *)
(***************************************************************************)
EmptyStore ==
    /\ authorRows = {}
    /\ paperRows = {}
    /\ links = {}
    /\ nextPaperId = 1
    /\ nextAuthorId = 1

NoRequest == Request("none", Undef, Undef, Undef)

NoResponse == Response(0, "", "", << >>, Undef, FALSE, 0, 0, FALSE)

\* Nothing else is going on: the clock at its origin, the assignment-1 table
\* empty, no createPaper call in flight, no form mounted.
Idle ==
    /\ clock = 0
    /\ papers = {}
    /\ lastID = 0
    /\ calls = << >>
    /\ form = Undef
    /\ net = << >>
    /\ paperList = Undef
    /\ edit = Undef

Init ==
    /\ EmptyStore
    /\ req = NoRequest
    /\ resp = NoResponse
    /\ resolved = << >>
    /\ input = Undef
    /\ Idle

Next ==
    \/ \E b \in PaperBodies : PostPaper(b)
    \/ \E id \in RawIds, b \in PaperBodies : PutPaper(id, b)
    \/ \E id \in RawIds : GetPaper(id)
    \/ \E id \in RawIds : DeletePaper(id)
    \/ \E q \in PaperQueries : GetPapers(q)
    \/ \E b \in AuthorBodies : PostAuthor(b)
    \/ \E id \in RawIds, b \in AuthorBodies : PutAuthor(id, b)
    \/ \E id \in RawIds : GetAuthor(id)
    \/ \E id \in RawIds : DeleteAuthor(id)
    \/ \E q \in AuthorQueries : GetAuthors(q)

Spec == Init /\ [][Next]_vars

(***************************************************************************)
(* Specification for validatePaperInput: one request body, drawn from all  *)
(* combinations of field values, is sent to POST and PUT /api/papers.      *)
(***************************************************************************)
TitleValues == {Undef, Null, Str(<< >>), Str(<<" ">>), Str(<<"T">>), Num(7)}

VenueValues == {Undef, Null, Str(<<" ">>), Str(<<"I", "c">>)}

YearValues ==
    {Undef, Null, Num(0), Num(1900), Num(1901), Num(2024), Frac,
     Str(<<"1", "9", "0", "1", "a">>), Str(<<"2", "0", "2", "4">>)}

AuthorEntries == {AuthorA, AuthorAE, AuthorNoName, AuthorBlank, Null}

AuthorsValues ==
    {Undef, Null, Num(7), Arr(<< >>)}
        \cup {Arr(<<a>>) : a \in AuthorEntries}
        \cup {Arr(<<a, b>>) : a \in AuthorEntries, b \in AuthorEntries}
        \cup {Arr(<<AuthorNoName, AuthorBlank, AuthorNoName>>),
              Arr(<<AuthorA, AuthorBlank, AuthorNoName>>)}

ValidationBodies ==
    {Paper(t, v, y, a) : t \in TitleValues, v \in VenueValues, y \in YearValues,
                         a \in AuthorsValues}

InitValidate ==
    /\ EmptyStore
    /\ req = NoRequest
    /\ resp = NoResponse
    /\ resolved = << >>
    /\ input \in ValidationBodies
    /\ Idle

NextValidate ==
    \/ PostPaper(input)
    \/ \E id \in {<<"1">>, <<"a">>} : PutPaper(id, input)

SpecValidate == InitValidate /\ [][NextValidate]_vars

(***************************************************************************)
(* Specification for the list endpoints: a few papers are created, then    *)
(* one query, drawn from all combinations of parameter values, is sent.    *)
(***************************************************************************)
SeedBodies ==
    {Paper(Str(<<"T">>), Str(<<"I", "c">>), Num(2024), Arr(<<AuthorA>>)),
     Paper(Str(<<"T">>), Str(<<"U">>), Num(2024), Arr(<<AuthorAE>>)),
     Paper(Str(<<"T">>), Str(<<"U", "c">>), Num(1901), Arr(<<AuthorBU, AuthorA>>))}

YearParams == {Undef, Str(<< >>), Str(<<"1", "9", "0", "0">>), Str(<<"1", "9", "0", "1">>),
               Str(<<"2", "0", "2", "4">>), Str(<<"x">>)}

TextParams == {Undef, Str(<< >>), Str(<<"c">>), Str(<<"i", "C">>), Str(<<"c", "i">>),
               Str(<<"_">>)}

LimitParams == {Undef, Str(<< >>), Str(<<"0">>), Str(<<"1">>), Str(<<"2">>),
                Str(<<"1", "0", "1">>), Str(<<"1", ".", "5">>)}

OffsetParams == {Undef, Str(<<"0">>), Str(<<"1">>), Str(<<"-", "1">>), Str(<<"2", "a">>)}

QueryInputs ==
    {[for |-> "papers",
      q |-> [year |-> y, publishedIn |-> t, limit |-> l, offset |-> o]] :
        y \in YearParams, t \in TextParams, l \in LimitParams, o \in OffsetParams}
    \cup
    {[for |-> "authors",
      q |-> [name |-> n, affiliation |-> t, limit |-> l, offset |-> o]] :
        n \in {Undef, Str(<<"a">>), Str(<<"_">>)}, t \in {Undef, Str(<<"u">>)},
        l \in LimitParams, o \in OffsetParams}

InitQuery ==
    /\ EmptyStore
    /\ req = NoRequest
    /\ resp = NoResponse
    /\ resolved = << >>
    /\ input \in QueryInputs
    /\ Idle

NextQuery ==
    \/ \E b \in SeedBodies : PostPaper(b)
    \/ input.for = "papers" /\ GetPapers(input.q)
    \/ input.for = "authors" /\ GetAuthors(input.q)

SpecQuery == InitQuery /\ [][NextQuery]_vars

(***************************************************************************)
(* Specification for overlapping requests: two POST /api/papers requests   *)
(* with valid bodies have entered db.createPaper; their steps interleave.  *)
(***************************************************************************)
OverlapBodies == PaperBodies \ {EmptyBody}

InitOverlap ==
    /\ EmptyStore
    /\ req = NoRequest
    /\ resp = NoResponse
    /\ resolved = << >>
    /\ input = Undef
    /\ clock = 0
    /\ papers = {}
    /\ lastID = 0
    /\ form = Undef
    /\ net = << >>
    /\ paperList = Undef
    /\ edit = Undef
    /\ calls \in {<<NewCall(a), NewCall(b)>> : a \in OverlapBodies, b \in OverlapBodies}

NextOverlap ==
    \/ \E c \in DOMAIN calls : \E j \in DOMAIN calls[c].steps : AuthorLookup(c, j)
    \/ \E c \in DOMAIN calls : \E j \in DOMAIN calls[c].steps : AuthorInsert(c, j)
    \/ \E c \in DOMAIN calls : PaperInsert(c)

SpecOverlap == InitOverlap /\ [][NextOverlap]_vars

(***************************************************************************)
(* Specification for overlapping deletes of authors: papers are created by *)
(* requests that do not overlap, then two DELETE /api/authors/:id requests *)
(* arrive and their steps interleave.                                      *)
(***************************************************************************)
NextDeleteOverlap ==
    \/ calls = << >> /\ \E b \in OverlapBodies : PostPaper(b)
    \/ \E a \in RawIds, b \in RawIds : StartDeletes(a, b)
    \/ \E c \in DOMAIN calls : DeleteAuthorGet(c)
    \/ \E c \in DOMAIN calls : DeleteAuthorCheck(c)
    \/ \E c \in DOMAIN calls : DeleteAuthorRun(c)

SpecDeleteOverlap == Init /\ [][NextDeleteOverlap]_vars

(***************************************************************************)
(* Specification for an update of a paper that overlaps deletes of authors:*)
(* papers and authors are created by requests that do not overlap, then a  *)
(* PUT /api/papers/:id arrives and DELETE /api/authors/:id requests are    *)
(* handled between its steps.                                              *)
(***************************************************************************)
UpdateIds == {<<"1">>, <<"2">>}

NextUpdateOverlap ==
    \/ calls = << >> /\ \E b \in OverlapBodies : PostPaper(b)
    \/ calls = << >> /\ \E b \in ValidAuthors : PostAuthor(b)
    \/ \E id \in UpdateIds, b \in OverlapBodies : StartUpdate(id, b)
    \/ \E c \in DOMAIN calls : \E j \in DOMAIN calls[c].steps : AuthorLookup(c, j)
    \/ \E c \in DOMAIN calls : \E j \in DOMAIN calls[c].steps : AuthorInsert(c, j)
    \/ \E c \in DOMAIN calls : PaperUpdate(c)
    \/ calls # << >> /\ \E id \in UpdateIds : DeleteAuthor(id)

SpecUpdateOverlap == Init /\ [][NextUpdateOverlap]_vars

(***************************************************************************)
(* Specification for PaperList: the component is mounted and fetches the   *)
(* papers; the user deletes displayed papers, confirming or not, while     *)
(* other clients create papers.                                            *)
(***************************************************************************)
ListBodies == {Paper(Str(<<"T">>), Str(<<"I", "c">>), Num(2024), Arr(<<AuthorA>>))}

InitList ==
    /\ EmptyStore
    /\ req = NoRequest
    /\ resp = NoResponse
    /\ resolved = << >>
    /\ input = Undef
    /\ clock = 0
    /\ papers = {}
    /\ lastID = 0
    /\ calls = << >>
    /\ form = Undef
    /\ edit = Undef
    /\ paperList = PaperList
    /\ net = <<fetchPapers>>

NextList ==
    \/ \E b \in ListBodies : PostPaper(b)
    \/ \E f \in DOMAIN net : Serve(f)
    \/ \E f \in DOMAIN net : FetchRejects(f)
    \/ \E f \in DOMAIN net : fetchPapersSettles(f)
    \/ \E id \in 1..MaxPaperId, confirm \in BOOLEAN : handleDelete(id, confirm)
    \/ \E f \in DOMAIN net : handleDeleteSettles(f)

SpecList == InitList /\ [][NextList]_vars

\* The request of the effect (the first fetch) is answered unless it fails,
\* and the code that awaits it runs once it has settled.
FairList ==
    /\ WF_vars(Serve(1))
    /\ WF_vars(fetchPapersSettles(1))

SpecListFair == SpecList /\ FairList

(***************************************************************************)
(* Specification for EditPaper: the page is opened on an id and fetches    *)
(* the paper; the user changes the title and the author selection and      *)
(* submits, any number of times, while another client creates papers.      *)
(***************************************************************************)
EditIds == {<<"1">>}

EditBodies == {Paper(Str(<<"T">>), Str(<<"I", "c">>), Num(2024), Arr(<<AuthorA, AuthorAE>>))}

EditTitles == {<<"U">>}

EditAuthorIds == {<< >>}

InitEdit ==
    /\ EmptyStore
    /\ req = NoRequest
    /\ resp = NoResponse
    /\ resolved = << >>
    /\ input = Undef
    /\ clock = 0
    /\ papers = {}
    /\ lastID = 0
    /\ calls = << >>
    /\ form = Undef
    /\ paperList = Undef
    /\ \E id \in EditIds : edit = EditPaper(id) /\ net = <<fetchPaper(id)>>

NextEdit ==
    \/ \E b \in EditBodies : PostPaper(b)
    \/ \E f \in DOMAIN net : Serve(f)
    \/ \E f \in DOMAIN net : FetchRejects(f)
    \/ \E f \in DOMAIN net : fetchPaperSettles(f)
    \/ FormShown /\ \E v \in EditTitles : handleChange("title", v) /\ UNCHANGED ui
    \/ FormShown /\ \E a \in EditAuthorIds : selectAuthors(a) /\ UNCHANGED ui
    \/ FormShown /\ Submit
    \/ \E f \in DOMAIN net : handleUpdatePaperSettles(f)
    \/ Navigate

SpecEdit == InitEdit /\ [][NextEdit]_vars

(***************************************************************************)
(* Specification for PaperForm: the form is mounted in create or edit      *)
(* mode, fields are changed and the form is submitted, any number of times.*)
(***************************************************************************)
FormTexts == {<< >>, <<" ">>, <<"T">>}

FormYears == {<< >>, <<"0">>, <<"1", "9", "0", "0">>, <<"1", "9", "0", "1">>,
              <<"1", ".", "5">>, <<"-", "1">>}

FormAuthorIds == {<< >>, <<1>>, <<1, 2>>}

InitForm ==
    /\ EmptyStore
    /\ req = NoRequest
    /\ resp = NoResponse
    /\ resolved = << >>
    /\ input = Undef
    /\ clock = 0
    /\ papers = {}
    /\ lastID = 0
    /\ calls = << >>
    /\ net = << >>
    /\ paperList = Undef
    /\ edit = Undef
    /\ form \in {PaperForm(FALSE, FormData(<< >>, << >>, Num(2024), << >>))}
                \cup {PaperForm(TRUE, FormData(<<"T">>, <<"I", "c">>, Num(2024), a)) :
                        a \in FormAuthorIds}

NextForm ==
    \/ \E v \in FormTexts : handleChange("title", v) /\ UNCHANGED ui
    \/ \E v \in FormTexts : handleChange("publishedIn", v) /\ UNCHANGED ui
    \/ \E v \in FormYears : handleChange("year", v) /\ UNCHANGED ui
    \/ \E a \in FormAuthorIds : selectAuthors(a) /\ UNCHANGED ui
    \/ handleSubmit /\ UNCHANGED ui

SpecForm == InitForm /\ [][NextForm]_vars

(***************************************************************************)
(* Specification for the timestamps: requests that create and update the   *)
(* papers of assignment 1, or the papers or the authors of assignment 2,   *)
(* while time passes.                                                      *)
(***************************************************************************)
Bodies1 ==
    {Paper1(Str(<<"T">>), Str(<<"A">>), Str(<<"I", "c">>), Num(2024)),
     Paper1(Str(<<"U">>), Str(<<"A">>), Str(<<"I", "c">>), Str(<<"2", "0", "2", "4">>)),
     Paper1(Undef, Undef, Undef, Undef)}

StampInputs == {[for |-> "assignment-1"], [for |-> "papers"], [for |-> "authors"]}

StampIds == {<<"1">>, <<"2">>, <<"a">>}

StampPaperBodies ==
    {Paper(Str(<<"T">>), Str(<<"I", "c">>), Num(2024), Arr(<<AuthorA>>)),
     Paper(Str(<<"T">>), Str(<<"I", "c">>), Num(2024), Arr(<<AuthorAE>>)),
     EmptyBody}

InitStamp ==
    /\ EmptyStore
    /\ req = NoRequest
    /\ resp = NoResponse
    /\ resolved = << >>
    /\ Idle
    /\ input \in StampInputs

NextStamp ==
    \/ Tick
    \/ input.for = "assignment-1" /\ \E b \in Bodies1 : PostPaper1(b)
    \/ input.for = "assignment-1" /\ \E id \in StampIds, b \in Bodies1 : PutPaper1(id, b)
    \/ input.for = "assignment-1" /\ \E id \in StampIds : DeletePaper1(id)
    \/ input.for = "papers" /\ \E b \in StampPaperBodies : PostPaper(b)
    \/ input.for = "papers" /\ \E id \in StampIds, b \in StampPaperBodies : PutPaper(id, b)
    \/ input.for = "papers" /\ \E id \in StampIds : DeletePaper(id)
    \/ input.for = "authors" /\ \E b \in AuthorBodies : PostAuthor(b)
    \/ input.for = "authors" /\ \E id \in StampIds, b \in AuthorBodies : PutAuthor(id, b)
    \/ input.for = "authors" /\ \E id \in StampIds : DeleteAuthor(id)

SpecStamp == InitStamp /\ [][NextStamp]_vars

(***************************************************************************)
(* Properties                                                              *)
(***************************************************************************)
PaperBodyOps == {"POST /api/papers", "PUT /api/papers/:id"}

\* The last request was a paper create/update whose body reached validation
\* and validation returned (did not throw).
Validated == req.op \in PaperBodyOps /\ resp.handler /\ resp.status # 500

ValidationFailed == Validated /\ resp.status = 400 /\ resp.error = "Validation Error"

Rank(m) ==
    CASE m = "Title is required" -> 1
      [] m = "Published venue is required" -> 2
      [] m \in {"Published year is required", "Valid year after 1900 is required"} -> 3
      [] m \in {"At least one author is required", "Author name is required"} -> 4
      [] OTHER -> 0

AllMissing(b) ==
    b.title.k = "undef" /\ b.publishedIn.k = "undef" /\ b.year.k = "undef"
        /\ b.authors.k = "undef"

FourMessages ==
    <<"Title is required", "Published venue is required", "Published year is required",
      "At least one author is required">>

\* C1: the messages returned for a paper body come in the order title, venue,
\* year, authors with at most one message per field; a body with all four
\* fields missing gets exactly the four "required" messages, which POST and
\* PUT /api/papers return as `messages` with status 400.
C1_ValidationOrder ==
    /\ ValidationFailed =>
          /\ resp.messages # << >>
          /\ \A i \in 1..Len(resp.messages) : Rank(resp.messages[i]) # 0
          /\ \A i, j \in 1..Len(resp.messages) :
                i < j => Rank(resp.messages[i]) < Rank(resp.messages[j])
    /\ (req.op \in PaperBodyOps /\ resp.handler /\ AllMissing(req.body)) =>
          /\ resp.status = 400
          /\ resp.error = "Validation Error"
          /\ resp.messages = FourMessages

C1_Witness ==
    /\ req.op = "PUT /api/papers/:id"
    /\ AllMissing(req.body)
    /\ resp.status = 400
    /\ Len(resp.messages) = 4

NonBlankText(x) == x.k = "str" /\ \E i \in 1..Len(x.v) : x.v[i] # " "

NamedAuthors(a) ==
    /\ a.k = "arr"
    /\ a.v # << >>
    /\ \A i \in 1..Len(a.v) : a.v[i].k = "obj" /\ NonBlankText(a.v[i].name)

OtherFieldsValid(b) ==
    NonBlankText(b.title) /\ NonBlankText(b.publishedIn) /\ NamedAuthors(b.authors)

InMessages(m) == \E i \in 1..Len(resp.messages) : resp.messages[i] = m

\* C2: with the other fields valid, a year that is an integer <= 1900 or not
\* an integer gives exactly ["Valid year after 1900 is required"], an integer
\* year >= 1901 gives no error, "Published year is required" is returned only
\* for a missing or null year, and the two year messages never come together.
C2_YearBoundary ==
    (req.op \in PaperBodyOps /\ resp.handler) =>
       /\ (OtherFieldsValid(req.body) /\ req.body.year.k \notin {"undef", "null"}
             /\ ~(req.body.year.k = "num" /\ req.body.year.v >= 1901)) =>
             /\ resp.status = 400
             /\ resp.messages = <<"Valid year after 1900 is required">>
       /\ (OtherFieldsValid(req.body) /\ req.body.year.k = "num"
             /\ req.body.year.v >= 1901) =>
             resp.status \in {200, 201, 404}
       /\ InMessages("Published year is required") =>
             req.body.year.k \in {"undef", "null"}
       /\ ~(InMessages("Published year is required")
              /\ InMessages("Valid year after 1900 is required"))

C2_Witness ==
    /\ req.op = "POST /api/papers"
    /\ OtherFieldsValid(req.body)
    /\ req.body.year = Num(1900)
    /\ resp.status = 400
    /\ resp.messages = <<"Valid year after 1900 is required">>

Count(m) == Cardinality({i \in 1..Len(resp.messages) : resp.messages[i] = m})

UnnamedAuthors(a) ==
    {i \in 1..Len(a.v) : a.v[i].k = "obj" /\ ~NonBlankText(a.v[i].name)}

\* C3: the title, venue, year and authors checks are independent, so each
\* applicable error is in the result; for an author list with any number of
\* authors without a name "Author name is required" is there exactly once,
\* and never together with "At least one author is required".
C3_Accumulation ==
    Validated =>
       /\ InMessages("Title is required") <=> ~NonBlankText(req.body.title)
       /\ InMessages("Published venue is required") <=> ~NonBlankText(req.body.publishedIn)
       /\ (InMessages("Published year is required")
             \/ InMessages("Valid year after 1900 is required"))
            <=> ~(req.body.year.k = "num" /\ req.body.year.v > 1900)
       /\ InMessages("At least one author is required")
            <=> (req.body.authors.k \in {"undef", "null"}
                   \/ (req.body.authors.k = "arr" /\ req.body.authors.v = << >>))
       /\ (req.body.authors.k = "arr" /\ UnnamedAuthors(req.body.authors) # {})
            => Count("Author name is required") = 1
       /\ (req.body.authors.k = "arr" /\ UnnamedAuthors(req.body.authors) = {})
            => Count("Author name is required") = 0
       /\ ~(InMessages("Author name is required")
              /\ InMessages("At least one author is required"))

C3_Witness ==
    /\ Validated
    /\ req.body.authors.k = "arr"
    /\ Cardinality(UnnamedAuthors(req.body.authors)) >= 2
    /\ Count("Author name is required") = 1
    /\ InMessages("Title is required")
    /\ InMessages("Valid year after 1900 is required")

IdOps ==
    {"GET /api/papers/:id", "PUT /api/papers/:id", "DELETE /api/papers/:id",
     "GET /api/authors/:id", "PUT /api/authors/:id", "DELETE /api/authors/:id"}

DenotesPositiveInteger(raw) ==
    LET n == ToNumber(raw) IN n.k = "num" /\ n.v >= 1

\* C4: on every route with an :id parameter, an id that is not a positive
\* integer is answered 400 "Validation Error" / "Invalid ID format", the route
\* handler and the data layer are not invoked and the store is unchanged, for
\* PUT also when the body is invalid.
C4_InvalidIdRejected ==
    [][(req'.op \in IdOps /\ ~DenotesPositiveInteger(req'.id)) =>
          /\ resp'.status = 400
          /\ resp'.error = "Validation Error"
          /\ resp'.message = "Invalid ID format"
          /\ resp'.messages = << >>
          /\ ~resp'.handler
          /\ resp'.dbCalls = 0
          /\ store' = store]_vars

C4_Witness ==
    /\ req.op = "PUT /api/papers/:id"
    /\ req.id = <<"-", "1">>
    /\ req.body = EmptyBody
    /\ resp.status = 400
    /\ resp.message = "Invalid ID format"
    /\ paperRows # {}

AsStored(x) == IF x.k = "undef" THEN [k |-> "null"] ELSE x

SameTriple(row, a) ==
    /\ row.name = a.name.v
    /\ row.email = AsStored(a.email)
    /\ row.affiliation = AsStored(a.affiliation)

PaperCreated(q, r) == q.op = "POST /api/papers" /\ r.status = 201

Occurrences(list, a) == Cardinality({i \in 1..Len(list) : list[i] = a})

SuppliedOnce(body) ==
    {body.authors.v[i] : i \in {j \in 1..Len(body.authors.v) :
                                  Occurrences(body.authors.v, body.authors.v[j]) = 1}}

\* C9: after two consecutive paper-create calls that each supply an author
\* with the same {name, email, affiliation}, exactly one author row with that
\* triple exists and both papers are linked to it.
C9_TwoCreatesOneAuthor ==
    [][(PaperCreated(req, resp) /\ PaperCreated(req', resp')) =>
          \A a \in SuppliedOnce(req.body) \cap SuppliedOnce(req'.body) :
             LET R == {r \in authorRows' : SameTriple(r, a)}
             IN /\ Cardinality(R) = 1
                /\ \A r \in R : /\ <<resp.data.id, r.id>> \in links'
                                /\ <<resp'.data.id, r.id>> \in links']_vars

\* C10: resolve-or-create returns the lowest-id row equal to the supplied
\* author in name, email and affiliation (omitted counting as null), and
\* inserts a row iff no row is equal in all three; a row equal in name only
\* is never reused.
C10_ExactMatchOrCreate ==
    \A i \in 1..Len(resolved) :
       LET e == resolved[i]
           M == {r.id : r \in {x \in e.seen : SameTriple(x, e.author)}}
       IN /\ M # {} => (~e.created /\ e.id = Min(M))
          /\ M = {} => e.created

\* A parameter is supplied when its key is in the query string.
Supplied(x) == x.k = "str"

IntegerWithin(x, lo, hi) ==
    LET n == ToNumber(x.v) IN n.k = "num" /\ n.v >= lo /\ n.v <= hi

IntegerAtLeast(x, lo) ==
    LET n == ToNumber(x.v) IN n.k = "num" /\ n.v >= lo

InvalidQueryAnswer ==
    /\ resp.status = 400
    /\ resp.error = "Validation Error"
    /\ resp.message = "Invalid query parameter format"
    /\ resp.dbCalls = 0

PassedOn(x, arg) == Supplied(x) => arg = ToNumber(x.v)

\* C5: GET /api/papers and GET /api/authors answer 400 "Invalid query
\* parameter format" without data access whenever a supplied year is not an
\* integer > 1900, a supplied limit not an integer in [1,100] or a supplied
\* offset not an integer >= 0; otherwise the data layer is reached with the
\* parsed numeric values.
C5_QueryValidation ==
    /\ req.op = "GET /api/papers" =>
          LET q == req.query
              bad == \/ Supplied(q.year) /\ ~IntegerAtLeast(q.year, 1901)
                     \/ Supplied(q.limit) /\ ~IntegerWithin(q.limit, 1, 100)
                     \/ Supplied(q.offset) /\ ~IntegerAtLeast(q.offset, 0)
          IN /\ bad => InvalidQueryAnswer
             /\ ~bad => /\ resp.status = 200
                        /\ resp.dbCalls = 1
                        /\ PassedOn(q.year, resp.args.year)
                        /\ PassedOn(q.limit, resp.args.limit)
                        /\ PassedOn(q.offset, resp.args.offset)
    /\ req.op = "GET /api/authors" =>
          LET q == req.query
              bad == \/ Supplied(q.limit) /\ ~IntegerWithin(q.limit, 1, 100)
                     \/ Supplied(q.offset) /\ ~IntegerAtLeast(q.offset, 0)
          IN /\ bad => InvalidQueryAnswer
             /\ ~bad => /\ resp.status = 200
                        /\ resp.dbCalls = 1
                        /\ PassedOn(q.limit, resp.args.limit)
                        /\ PassedOn(q.offset, resp.args.offset)

\* The value a numeric parameter contributes: its number when the parameter
\* has a value, the default when it is absent or empty.
Effective(x, default) ==
    IF x.k = "str" /\ x.v # << >> THEN ToNumber(x.v).v ELSE default

\* C6: every 200 response of GET /api/papers echoes the effective limit and
\* offset (the supplied values, otherwise 10 and 0) and holds at most `limit`
\* papers, however many are stored.
C6_EchoAndAtMostLimit ==
    (req.op = "GET /api/papers" /\ resp.status = 200) =>
       /\ resp.data.limit = Effective(req.query.limit, 10)
       /\ resp.data.offset = Effective(req.query.offset, 0)
       /\ Len(resp.data.papers) <= resp.data.limit

C6_Witness ==
    /\ req.op = "GET /api/papers"
    /\ resp.status = 200
    /\ req.query.limit = Str(<<"1">>)
    /\ req.query.offset = Undef
    /\ Cardinality(paperRows) = 2
    /\ resp.data.total = 2
    /\ resp.data.limit = 1
    /\ Len(resp.data.papers) = 1

\* C7: getAllPapers returns the papers selected by the year/publishedIn
\* filters in ascending id order, restricted to positions [offset,
\* offset+limit) of that order, and `total` is the number of papers selected
\* by the same filters whatever limit and offset are.
C7_PageOfMatches ==
    (req.op = "GET /api/papers" /\ resp.status = 200) =>
       LET M == {p.id : p \in {x \in paperRows : PaperWhere(resp.args, x)}}
           out == resp.data.papers
           rest == Cardinality(M) - resp.data.offset
           size == IF rest < 0 THEN 0
                   ELSE IF rest < resp.data.limit THEN rest ELSE resp.data.limit
       IN /\ resp.data.total = Cardinality(M)
          /\ Len(out) = size
          /\ \A i \in 1..Len(out) :
                /\ out[i].id \in M
                /\ Cardinality({m \in M : m < out[i].id}) = resp.data.offset + i - 1

C7_Witness ==
    /\ req.op = "GET /api/papers"
    /\ resp.status = 200
    /\ req.query.year = Str(<<"2", "0", "2", "4">>)
    /\ resp.data.offset = 1
    /\ resp.data.limit = 1
    /\ resp.data.total = 2
    /\ Len(resp.data.papers) = 1
    /\ resp.data.papers[1].id = 2

ContainsText(text, f) ==
    \E i \in 0..(Len(text) - Len(f)) :
       \A j \in 1..Len(f) : Lower(text[i + j]) = Lower(f[j])

\* C8: a publishedIn filter selects exactly the papers whose publishedIn
\* contains the filter text, compared case-insensitively, a year filter
\* exactly the papers of that year; getAllAuthors selects by name and
\* affiliation in the same way.
C8_SubstringFilter ==
    /\ (req.op = "GET /api/papers" /\ resp.status = 200) =>
          resp.data.total =
             Cardinality({p \in paperRows :
                /\ Truthy(req.query.year) => p.year = ToNumber(req.query.year.v).v
                /\ Truthy(req.query.publishedIn) =>
                      ContainsText(p.publishedIn, req.query.publishedIn.v)})
    /\ (req.op = "GET /api/authors" /\ resp.status = 200) =>
          resp.data.total =
             Cardinality({a \in authorRows :
                /\ Truthy(req.query.name) => ContainsText(a.name, req.query.name.v)
                /\ Truthy(req.query.affiliation) =>
                      /\ a.affiliation.k = "str"
                      /\ ContainsText(a.affiliation.v, req.query.affiliation.v)})

SoleAuthorOfAPaper(aid) == \E p \in paperRows : AuthorsOf(links, p.id) = {aid}

\* C11: DELETE /api/authors/:id of a stored author who is the only author of
\* at least one paper answers 400 "Constraint Error", deletes nothing and
\* leaves every link as it was, so the author is still stored; an author who
\* is the only author of no paper is deleted (with their links) and the
\* answer is 204.
C11_SoleAuthorDeleteRefused ==
    [][(/\ req'.op = "DELETE /api/authors/:id"
        /\ DenotesPositiveInteger(req'.id)
        /\ HasId(authorRows, ToNumber(req'.id).v)) =>
          LET id == ToNumber(req'.id).v
          IN IF SoleAuthorOfAPaper(id)
             THEN /\ resp'.status = 400
                  /\ resp'.error = "Constraint Error"
                  /\ store' = store
                  /\ HasId(authorRows', id)
             ELSE /\ resp'.status = 204
                  /\ ~HasId(authorRows', id)
                  /\ authorRows' = authorRows \ {RowById(authorRows, id)}
                  /\ paperRows' = paperRows
                  /\ links' = {l \in links : l[2] # id}]_vars

C11_Witness ==
    /\ req.op = "DELETE /api/authors/:id"
    /\ resp.status = 400
    /\ resp.error = "Constraint Error"
    /\ DenotesPositiveInteger(req.id)
    /\ HasId(authorRows, ToNumber(req.id).v)
    /\ SoleAuthorOfAPaper(ToNumber(req.id).v)
    /\ Cardinality(PapersOf(links, ToNumber(req.id).v)) = 2

\* C12: in every state reached by non-overlapping create, update and delete
\* requests on papers and authors, every stored paper is linked to at least
\* one author, and every link leads to a stored author.
C12_PaperHasAuthor ==
    \A p \in paperRows :
       /\ AuthorsOf(links, p.id) # {}
       /\ \A a \in AuthorsOf(links, p.id) : HasId(authorRows, a)

C12_Witness ==
    /\ req.op = "DELETE /api/authors/:id"
    /\ resp.status = 204
    /\ \E p \in paperRows : Cardinality(AuthorsOf(links, p.id)) = 1
    /\ Cardinality(authorRows) = 1
    /\ nextAuthorId = 3

ResolvedIds(log) == {log[i].id : i \in 1..Len(log)}

\* C13: after a successful PUT /api/papers/:id the authors linked to the
\* paper are exactly the authors resolved from the request's author list:
\* every author linked before and not resolved now is unlinked, and the
\* links of the other papers are untouched.
C13_AuthorsReplaced ==
    [][(req'.op = "PUT /api/papers/:id" /\ resp'.status = 200) =>
          LET id == resp'.data.id
              new == ResolvedIds(resolved')
          IN /\ id = ToNumber(req'.id).v
             /\ Len(resolved') = Len(req'.body.authors.v)
             /\ {resolved'[i].author : i \in 1..Len(resolved')}
                   = {req'.body.authors.v[j] : j \in 1..Len(req'.body.authors.v)}
             /\ AuthorsOf(links', id) = new
             /\ {resp'.data.authors[i].id : i \in 1..Len(resp'.data.authors)} = new
             /\ \A a \in AuthorsOf(links, id) \ new : <<id, a>> \notin links'
             /\ {l \in links' : l[1] # id} = {l \in links : l[1] # id}]_vars

C13_Witness ==
    /\ req.op = "PUT /api/papers/:id"
    /\ resp.status = 200
    /\ Len(resp.data.authors) = 1
    /\ AuthorsOf(links, resp.data.id) = ResolvedIds(resolved)
    /\ \E a \in authorRows : PapersOf(links, a.id) = {}
    /\ \A i \in 1..Len(resolved) : ~resolved[i].created

Ascending(seq) == \A i, j \in 1..Len(seq) : i < j => seq[i].id < seq[j].id

\* C14: GET /api/papers/:id of the id returned by the POST /api/papers just
\* before it returns the title, publishedIn and year of the posted body and
\* the posted authors (each posted author is among the returned ones, each
\* returned one was posted; an omitted email or affiliation reads back as
\* null), listed in ascending id order.
C14_RoundTrip ==
    [][(/\ PaperCreated(req, resp)
        /\ req'.op = "GET /api/papers/:id"
        /\ DenotesPositiveInteger(req'.id)
        /\ ToNumber(req'.id).v = resp.data.id) =>
          LET sent == req.body.authors.v
              got == resp'.data.authors
          IN /\ resp'.status = 200
             /\ resp'.data.id = resp.data.id
             /\ resp'.data.title = req.body.title.v
             /\ resp'.data.publishedIn = req.body.publishedIn.v
             /\ resp'.data.year = req.body.year.v
             /\ Ascending(got)
             /\ \A i \in 1..Len(sent) : \E j \in 1..Len(got) : SameTriple(got[j], sent[i])
             /\ \A j \in 1..Len(got) : \E i \in 1..Len(sent) : SameTriple(got[j], sent[i])]_vars

PaperOps == {"GET /api/papers/:id", "PUT /api/papers/:id", "DELETE /api/papers/:id"}

ValidPaperBody(b) ==
    OtherFieldsValid(b) /\ b.year.k = "num" /\ b.year.v > 1900

ValidAuthorBody(b) == NonBlankText(b.name)

\* The request addresses, by a well-formed id, an entity that is not stored
\* (rows are the rows before the request), with a valid body if it is a PUT.
AddressesMissing(q, prows, arows) ==
    /\ q.op \in IdOps
    /\ DenotesPositiveInteger(q.id)
    /\ IF q.op \in PaperOps
       THEN ~HasId(prows, ToNumber(q.id).v)
       ELSE ~HasId(arows, ToNumber(q.id).v)
    /\ q.op = "PUT /api/papers/:id" => ValidPaperBody(q.body)
    /\ q.op = "PUT /api/authors/:id" => ValidAuthorBody(q.body)

\* C15: GET, PUT (valid body) and DELETE of a well-formed id that names no
\* stored paper or author answer 404 with error "Paper not found" or
\* "Author not found"; the data layer was asked and reported the absence,
\* and no exception is passed on to the error handler.
C15_MissingIs404 ==
    [][AddressesMissing(req', paperRows, authorRows) =>
          /\ resp'.status = 404
          /\ resp'.error = (IF req'.op \in PaperOps THEN "Paper not found"
                                                     ELSE "Author not found")
          /\ resp'.dbCalls >= 1
          /\ ~resp'.forwarded
          /\ resp'.sends = 1]_vars

\* Ids handed out so far that name no stored row: the deleted entities.
Gone(rows, nextId) == {i \in 1..(nextId - 1) : ~HasId(rows, i)}

OnceGoneAlwaysGone(rows, nextId, rowsAfter, nextIdAfter) ==
    /\ nextIdAfter >= nextId
    /\ \A r \in rowsAfter : r.id < nextIdAfter
    /\ \A r \in rowsAfter : ~HasId(rows, r.id) => r.id >= nextId
    /\ Gone(rows, nextId) \subseteq Gone(rowsAfter, nextIdAfter)

\* C16: a DELETE answered 204 leaves the id not stored; an id that was handed
\* out and is not stored stays so over every later request, because a created
\* entity always gets an id above every id handed out before; and GET of such
\* an id answers 404.
C16_DeletedStaysGone ==
    [][/\ OnceGoneAlwaysGone(paperRows, nextPaperId, paperRows', nextPaperId')
       /\ OnceGoneAlwaysGone(authorRows, nextAuthorId, authorRows', nextAuthorId')
       /\ (req'.op = "DELETE /api/papers/:id" /\ resp'.status = 204) =>
             ToNumber(req'.id).v \in Gone(paperRows', nextPaperId')
       /\ (req'.op = "DELETE /api/authors/:id" /\ resp'.status = 204) =>
             ToNumber(req'.id).v \in Gone(authorRows', nextAuthorId')
       /\ (/\ req'.op = "GET /api/papers/:id"
           /\ DenotesPositiveInteger(req'.id)
           /\ ToNumber(req'.id).v \in Gone(paperRows, nextPaperId)) =>
             resp'.status = 404 /\ resp'.error = "Paper not found"
       /\ (/\ req'.op = "GET /api/authors/:id"
           /\ DenotesPositiveInteger(req'.id)
           /\ ToNumber(req'.id).v \in Gone(authorRows, nextAuthorId)) =>
             resp'.status = 404 /\ resp'.error = "Author not found"]_vars

C16_Witness ==
    /\ req.op = "GET /api/papers/:id"
    /\ req.id = <<"1">>
    /\ resp.status = 404
    /\ nextPaperId = 3
    /\ HasId(paperRows, 2)
    /\ Gone(paperRows, nextPaperId) = {1}

\* C17: whatever body is sent to POST or PUT /api/papers (fields missing,
\* null, blank or of the wrong type), an invalid body is answered 400 with
\* error "Validation Error" and a list of messages; no body makes an
\* exception leave the route handler, and none is answered 500.
C17_MalformedBodyIs400 ==
    (req.op \in PaperBodyOps /\ (req.op = "PUT /api/papers/:id" => DenotesPositiveInteger(req.id)))
       => /\ resp.status # 500
          /\ ~resp.forwarded
          /\ ~ValidPaperBody(req.body) =>
                /\ resp.status = 400
                /\ resp.error = "Validation Error"
                /\ resp.messages # << >>

AllSteps == UNION {{<<c, j>> : j \in DOMAIN calls[c].steps} : c \in DOMAIN calls}

StepOf(x) == calls[x[1]].steps[x[2]]

\* C19: overlapping paper creates do not keep authors unique.  A call inserts
\* an author row exactly when its own lookup saw no row for the author, also
\* when another call inserted such a row since; so two calls that both look
\* up before either inserts leave two rows with the same name, email and
\* affiliation (the witness), and rows with the same triple inserted by two
\* calls arise in no other way.
C19_DuplicateOnlyByRace ==
    /\ \A x \in AllSteps :
          LET st == StepOf(x)
          IN /\ st.created => ~\E r \in st.seen : SameTriple(r, st.author)
             /\ (st.pc = "done" /\ ~st.created) =>
                   \E r \in st.seen : r.id = st.id /\ r.name = st.author.name.v
             /\ st.created => \E r \in authorRows : r.id = st.id /\ SameTriple(r, st.author)
    /\ \A x, y \in AllSteps :
          (x # y /\ StepOf(x).created /\ StepOf(y).created
             /\ StepOf(x).author = StepOf(y).author) =>
             /\ ~HasId(StepOf(x).seen, StepOf(y).id)
             /\ ~HasId(StepOf(y).seen, StepOf(x).id)

C19_Witness ==
    /\ Len(calls) = 2
    /\ calls[1].pc = "done" /\ calls[2].pc = "done"
    /\ calls[1].body.authors.v = <<AuthorA>>
    /\ calls[2].body.authors.v = <<AuthorA>>
    /\ calls[1].steps[1].created /\ calls[2].steps[1].created
    /\ calls[1].steps[1].seen = {} /\ calls[2].steps[1].seen = {}
    /\ Cardinality({r \in authorRows : SameTriple(r, AuthorA)}) = 2
    /\ Cardinality(paperRows) = 2
    /\ \A p \in paperRows : Cardinality(AuthorsOf(links, p.id)) = 1
    /\ AuthorsOf(links, 1) # AuthorsOf(links, 2)

\* The five checks in the claimed order: does it fail, and its message.
FormChecks(paper, d) ==
    << [fails |-> ~NonBlankText(Str(d.title)), message |-> "Title is required"],
       [fails |-> ~NonBlankText(Str(d.publishedIn)),
        message |-> "Publication venue is required"],
       [fails |-> d.year = Num(0), message |-> "Publication year is required"],
       [fails |-> ~(d.year.k = "num" /\ d.year.v >= 1901),
        message |-> "Valid year after 1900 is required"],
       [fails |-> ~paper /\ d.authorIds = << >>,
        message |-> "Please select at least one author"] >>

Failing(checks) == {i \in 1..Len(checks) : checks[i].fails}

\* C20: after a submit the error shown is the message of the first failing
\* check in the order title, publication venue, year present, year an integer
\* above 1900, an author selected (create mode only), and no error when none
\* fails; onSubmit was called, with the form data, exactly when none fails.
C20_FirstFailingCheck ==
    (form.k = "form" /\ form.last \in {"submitted", "rejected"}) =>
       LET checks == FormChecks(form.paper, form.formData)
           F == Failing(checks)
       IN /\ F # {} => /\ form.error = Str(checks[Min(F)].message)
                       /\ form.last = "rejected"
                       /\ form.onSubmit = Undef
          /\ F = {} => /\ form.error = Null
                       /\ form.last = "submitted"
                       /\ form.onSubmit = form.formData

C20_Witness ==
    /\ form.k = "form"
    /\ form.paper
    /\ form.last = "submitted"
    /\ form.formData.authorIds = << >>
    /\ form.onSubmit = form.formData
    /\ form.error = Null

\* The id and the two timestamps of each row of a table.
Stamps1(rows) == {[id |-> r.id, c |-> r.created_at, u |-> r.updated_at] : r \in rows}

Stamps(rows) == {[id |-> r.id, c |-> r.createdAt, u |-> r.updatedAt] : r \in rows}

\* Over one step from the stamps `old` to the stamps `new` at time `now`, in
\* which the row `updated` (0 for none) was successfully updated.
StampsKept(old, new, now, updated) ==
    /\ \A r \in new : r.c <= r.u /\ r.u <= now
    /\ \A r \in new : \A o \in old :
          o.id = r.id => /\ r.c = o.c
                         /\ r.u = (IF r.id = updated THEN now ELSE o.u)
    /\ \A r \in new : (~\E o \in old : o.id = r.id) => r.c = now /\ r.u = now
    /\ updated # 0 => \E r \in new : r.id = updated

\* The row a step updates: that of the 200 reply to `op`, when the step is
\* the handling of a request and not the passing of time.
UpdatedBy(op, q, r, passed) ==
    IF ~passed /\ q.op = op /\ r.status = 200 THEN r.data.id ELSE 0

\* C18: a successful update of a paper or an author sets its update
\* timestamp to the time of the update and keeps its id and its creation
\* timestamp; no other request changes a stored timestamp; a created row has
\* both timestamps at the time of its creation.  So every stored row has
\* updatedAt >= createdAt and the createdAt it was created with.
C18_TimestampsKept ==
    [][/\ StampsKept(Stamps1(papers), Stamps1(papers'), clock',
                     UpdatedBy("PUT /api/papers/:id (1)", req', resp', clock' # clock))
       /\ StampsKept(Stamps(paperRows), Stamps(paperRows'), clock',
                     UpdatedBy("PUT /api/papers/:id", req', resp', clock' # clock))
       /\ StampsKept(Stamps(authorRows), Stamps(authorRows'), clock',
                     UpdatedBy("PUT /api/authors/:id", req', resp', clock' # clock))]_vars

C18_Witness ==
    /\ req.op = "PUT /api/papers/:id (1)"
    /\ resp.status = 200
    /\ \E r \in papers : /\ r.id = resp.data.id
                          /\ r.created_at < r.updated_at
                          /\ r.updated_at = clock
                          /\ resp.data.updated_at = Iso(clock)

PaperWritten(q, r) ==
    \/ q.op = "POST /api/papers" /\ r.status = 201
    \/ q.op = "PUT /api/papers/:id" /\ r.status = 200

\* C26: when one successful create or update of a paper lists the same
\* author {name, email, affiliation} more than once, all the entries of that
\* author resolve to one author id, at most one of them creates a row, and
\* so the paper is linked to exactly one author for them.
C26_OneAuthorPerTriple ==
    [][PaperWritten(req', resp') =>
          \A i, j \in 1..Len(resolved') :
             (i # j /\ resolved'[i].author = resolved'[j].author) =>
                /\ resolved'[i].id = resolved'[j].id
                /\ ~(resolved'[i].created /\ resolved'[j].created)]_vars

\* C28: a PUT /api/papers/:id answered 404 changes nothing that is stored:
\* no paper, no link and no author row.
C28_NotFoundWritesNothing ==
    [][(req'.op = "PUT /api/papers/:id" /\ resp'.status = 404) =>
          /\ paperRows' = paperRows
          /\ links' = links
          /\ authorRows' = authorRows
          /\ nextAuthorId' = nextAuthorId]_vars

\* C30: the handling of a request sends one response, and when that response
\* is a 4xx of the handler nothing is passed on to the error handler.
C30_OneResponse ==
    req.op # "none" =>
       /\ resp.sends = 1
       /\ resp.status \in 400..499 => ~resp.forwarded

\* C27: also while two DELETE /api/authors/:id requests overlap, every
\* stored paper is linked to at least one author: the deletes of the two
\* authors of a paper do not both succeed.
C27_PaperKeepsAnAuthor ==
    calls # << >> => \A p \in paperRows : AuthorsOf(links, p.id) # {}

\* C29: a PUT /api/papers/:id is answered 404 Paper not found only when no
\* paper with that id is stored at the time of the update, also when an
\* author it resolved has been deleted by an overlapping request.
C29_NotFoundMeansNoPaper ==
    [][(/\ calls # << >>
        /\ calls[1].pc = "resolving"
        /\ calls'[1].pc = "done"
        /\ resp'.status = 404) =>
          /\ resp'.error = "Paper not found"
          /\ ~HasId(paperRows, ToNumber(req'.id).v)]_vars

\* C23: when the user clicks Delete and cancels the dialog, no request is
\* sent and what PaperList renders (the papers and the message) is what it
\* rendered before the click.
C23_CancelDoesNothing ==
    [][(paperList'.k = "list" /\ paperList'.last = "cancel" /\ paperList' # paperList) =>
          /\ net' = net
          /\ Rendered(paperList') = Rendered(paperList)]_vars

Deleted == {net[f].closure.paperId :
              f \in {g \in DOMAIN net : /\ net[g].by = "handleDelete"
                                         /\ net[g].settled
                                         /\ ok(net[g].resp)}}

\* C25: a paper whose DELETE from PaperList has succeeded is not among the
\* papers PaperList renders, from then on.
C25_DeletedNotDisplayed ==
    paperList.k = "list" =>
       \A i \in DOMAIN Rendered(paperList).papers :
          Rendered(paperList).papers[i].id \notin Deleted

\* The request of the effect has settled: its await has resumed.
Settled == net[1].settled

\* C24: PaperList renders "Loading papers..." from mount until the request
\* for the papers has settled; from then on it renders "Error loading papers"
\* when the request failed, "No papers found" when it has no papers, and the
\* papers otherwise; the request does settle, and once loading is over it
\* does not start again.
C24_LoadingEnds ==
    /\ [](paperList.loading <=> ~Settled)
    /\ [](Settled =>
            Rendered(paperList).text =
               (IF ~ok(net[1].resp) THEN "Error loading papers"
                ELSE IF Len(paperList.papers) = 0 THEN "No papers found"
                ELSE ""))
    /\ [][~paperList.loading => ~paperList'.loading]_vars
    /\ <>[](~paperList.loading)

C24_Witness ==
    /\ Settled
    /\ ~ok(net[1].resp)
    /\ ~paperList.loading
    /\ Rendered(paperList).text = "Error loading papers"

Updates == {f \in DOMAIN net : net[f].by = "handleUpdatePaper"}

\* name, email and affiliation of the authors of a paper as fetched
AuthorInputs(paper) ==
    [i \in DOMAIN paper.authors |->
        [name |-> paper.authors[i].name, email |-> paper.authors[i].email,
         affiliation |-> paper.authors[i].affiliation]]

\* name, email and affiliation of the authors of a request body
AuthorsSent(body) ==
    [i \in DOMAIN body.authors.v |->
        [name |-> body.authors.v[i].name.v, email |-> body.authors.v[i].email,
         affiliation |-> body.authors.v[i].affiliation]]

\* C21: the authors of every PUT request the edit page has sent are the
\* authors (name, email, affiliation), in their order, of the paper that the
\* page fetched when it was opened, whatever is selected in the form.
C21_AuthorsAsFetched ==
    \A f \in Updates :
       /\ net[1].by = "fetchPaper" /\ ok(net[1].resp)
       /\ AuthorsSent(net[f].request.body) = AuthorInputs(net[1].resp.data)
       /\ edit.paper = net[1].resp.data

C21_Witness ==
    /\ form # Undef
    /\ form.last = "submitted"
    /\ form.onSubmit.authorIds = << >>
    /\ \E f \in Updates :
          /\ net[f].request.body.title = Str(form.onSubmit.title)
          /\ Len(net[f].request.body.authors.v) = 2

\* The title, venue, year and authors stored for the paper of the edit page.
StoredPaper(prows, lk) ==
    LET id == ToNumber(edit.id).v
    IN IF HasId(prows, id)
       THEN [row |-> RowById(prows, id), authors |-> AuthorsOf(lk, id)]
       ELSE Null

\* C22: a PUT request that the edit page sent while a navigation timer was
\* pending, i.e. after an update had succeeded and before the page was left,
\* does not change the stored paper when the server handles it.
C22_NoUpdateDuringDelay ==
    [][\A f \in Updates :
          (Waiting(net[f]) /\ ~Waiting(net'[f]) /\ net[f].closure.timers > 0) =>
             StoredPaper(paperRows', links') = StoredPaper(paperRows, links)]_vars

====
